---------------------------- MODULE Spec2Model ----------------------------
(***************************************************************************)
(* Turn-based action resolution of the hostage-negotiation engine:         *)
(* core/game_state.py (GameState), core/dialogue_system.py (GameAction,    *)
(* ActionSystem) and core/ai_opponent.py (AIAction, AIOpponent).           *)
(*                                                                         *)
(* Real-valued metrics and probabilities are held in ten-thousandths           *)
(* (0.15 is 1500), so that every product of the code's literals is exact.   *)
(* Each random.random() comparison is a nondeterministic choice.           *)
(***************************************************************************)
EXTENDS Integers, Sequences, FiniteSets, TLC

VARIABLES gs, ai, pc, last, probe, cooled, ai_last_turn_actions, behavior_type, weighted, game_history, entries_added, core_state

vars ==
  <<gs, ai, pc, last, probe, cooled, ai_last_turn_actions, behavior_type,
    weighted,
    game_history,
    entries_added,
    core_state>>

(***************************************************************************)
(* Bounds of the model                                                     *)
(***************************************************************************)
\* size of the hostage roster of the encounter (the code builds 10)
NumHostages == 2
\* max_turns: GameState sets 20; the encounter is played with this many
\* turns so that its last turns are explored
MaxTurns == 2

(***************************************************************************)
(* Program constants                                                       *)
(***************************************************************************)
\* the 1.0 of the metric clamps, in ten-thousandths
ONE == 10000
\* max(0.1, min(0.95, ...)) of get_dynamic_success_chance
MIN_CHANCE == 1000
MAX_CHANCE == 9500
\* add_action_cooldown(self.name, 3)
COOLDOWN_TURNS == 3
\* self.action_points = 3
BASE_AP == 3

Max(a, b) == IF a >= b THEN a ELSE b
Min(a, b) == IF a <= b THEN a ELSE b

\* int(x) of Python for x = n / d with d > 0: truncation toward zero
TruncDiv(n, d) == IF n >= 0 THEN n \div d ELSE -((-n) \div d)

HostageIds == 0 .. (NumHostages - 1)

(***************************************************************************)
(* ActionCategory.value of core/dialogue_system.py                         *)
(***************************************************************************)
ActionCategory ==
  [DIALOGUE |-> "Dialogue", RESOURCES |-> "Resources", FORCE |-> "Force",
   TECH |-> "Tech", NEGOTIATION |-> "Negotiation", THREATS |-> "Threats"]

CategoryValues == {ActionCategory[k] : k \in DOMAIN ActionCategory}

\* Faction of core/dialogue_system.py and core/game_state.py: the members
\* that the modelled actions and the player carry
Faction ==
  [FBI |-> "FBI", CIA |-> "CIA", LOCAL_PD |-> "LOCAL_PD",
   LIBERATION_FRONT |-> "LIBERATION_FRONT"]

\* faction_specific is the set of the factions listed; {} is the empty list
GameAction(name, category, ap, chance, effects, rcost, pcost, cons, special, factions) ==
  [name |-> name, category |-> category, action_points |-> ap,
   base_success_chance |-> chance, effects |-> effects,
   resource_cost |-> rcost, personnel_cost |-> pcost,
   consequences |-> cons, is_special |-> special,
   faction_specific |-> factions]

(***************************************************************************)
(* GameState.__init__ (core/game_state.py).  Of the resource and personnel *)
(* tables the model keeps the keys that the modelled actions or            *)
(* check_game_over touch; hostage_taker_aggression and demands_urgency are *)
(* written but never read and are left out.                                *)
(***************************************************************************)
PlayerResourceInit ==
  [manpower |-> 10, intelligence |-> 3, negotiation_leverage |-> 2,
   public_support |-> 7, surveillance_cameras |-> 6, tactical_gear |-> 5,
   political_influence |-> 3, money |-> 5000000, media_control |-> 60,
   communications_equipment |-> 8]

AIResourceInit ==
  [manpower |-> 8, concealment |-> 7, leverage |-> 5, money_demanded |-> 1000000]

AIPersonnelInit == [armed_members |-> 6, negotiators |-> 2]

PlayerPersonnelInit == [negotiators |-> 4, tactical_team |-> 8]

HostageInit == [status |-> "captured", health |-> 100, stress |-> 50]

\* the encounter is played as GameState(Faction.FBI)
GameStateInit ==
  [player_faction |-> Faction.FBI,
   turn |-> 1,
   max_turns |-> MaxTurns,
   action_points |-> BASE_AP,
   next_turn_extra_ap |-> 0,
   trust_level |-> 5000,
   tension_level |-> 3000,
   morale_level |-> 7500,
   action_cooldowns |-> << >>,
   player_resources |-> PlayerResourceInit,
   ai_resources |-> AIResourceInit,
   ai_personnel |-> AIPersonnelInit,
   player_personnel |-> PlayerPersonnelInit,
   total_hostages |-> NumHostages,
   hostages_released |-> 0,
   hostages_killed |-> 0,
   hostage_deadline |-> 10,
   hostages_status |-> [i \in HostageIds |-> HostageInit],
   tactical_positions |-> [perimeter |-> TRUE, negotiation_point |-> TRUE,
                           command_post |-> TRUE, sniper_positions |-> FALSE,
                           breach_points |-> FALSE, surveillance |-> FALSE],
   environment |-> [power_status |-> "on", fire_status |-> "none"],
   demands_money |-> 1000000,
   demands_met_money |-> 0,
   last_action_category |-> "None",
   last_action_success |-> FALSE,
   game_over |-> FALSE,
   victory |-> FALSE,
   defeat_reason |-> "None",
   hostage_taker_morale |-> 7000]

\* AIOpponent.__init__; exists is FALSE while game_state.ai_opponent is None
AIOpponentInit ==
  [exists |-> FALSE, action_points |-> BASE_AP,
   player_action_history |-> [c \in CategoryValues |-> 0],
   adaptation_level |-> 0]

\* the state a call works on: the game state, the opponent, whether an
\* exception is propagating out of the call, and the turn_results list of
\* take_turn, which is filled when the encounter observes it
World(g, a) ==
  [gs |-> g, ai |-> a, raised |-> FALSE, ai_actions |-> << >>, observed |-> FALSE]

(***************************************************************************)
(* The simple game core of game_core.py: its GameState, its Action catalog *)
(* and ActionSystem.execute_action.  trust, tension and morale are         *)
(* integers from 0 to 100 there.                                           *)
(***************************************************************************)
\* game_core.GameState.__init__
CoreStateInit ==
  [turn |-> 1, trust |-> 50, tension |-> 30, morale |-> 75, hostages |-> 5,
   ap |-> 3, game_over |-> FALSE, victory |-> FALSE]

\* game_core.GameState.update_state; no code of the repository calls it
update_state(c, trust_change, tension_change, morale_change) ==
  LET c1 == [c EXCEPT !.trust = Max(0, Min(100, @ + trust_change)),
                      !.tension = Max(0, Min(100, @ + tension_change)),
                      !.morale = Max(0, Min(100, @ + morale_change))]
  IN  IF c1.trust >= 90 THEN [c1 EXCEPT !.game_over = TRUE, !.victory = TRUE]
      ELSE IF c1.tension >= 90 \/ c1.hostages <= 0
        THEN [c1 EXCEPT !.game_over = TRUE, !.victory = FALSE]
      ELSE c1

\* game_core.Action; success_chance in ten-thousandths
CoreAction(name, type, ap_cost, success_chance) ==
  [name |-> name, type |-> type, ap_cost |-> ap_cost,
   success_chance |-> success_chance]

\* ActionSystem._initialize_actions
CoreActions ==
  {CoreAction("Talk Down", "NEGOTIATE", 1, 7000),
   CoreAction("Make Deal", "NEGOTIATE", 2, 8000),
   CoreAction("Build Trust", "NEGOTIATE", 2, 7500),
   CoreAction("Gather Intel", "NEGOTIATE", 1, 9000),
   CoreAction("Position Units", "TACTICAL", 1, 8000),
   CoreAction("Secure Perimeter", "TACTICAL", 2, 8500),
   CoreAction("Scout Location", "TACTICAL", 1, 9000),
   CoreAction("Set Up Command", "TACTICAL", 2, 8000),
   CoreAction("Crisis Expert", "SPECIAL", 3, 7000),
   CoreAction("Psychological Edge", "SPECIAL", 2, 7500),
   CoreAction("Inside Contact", "SPECIAL", 2, 8000),
   CoreAction("Media Control", "SPECIAL", 2, 8500),
   CoreAction("Show Force", "FORCE", 1, 8000),
   CoreAction("Breach Prep", "FORCE", 2, 7500),
   CoreAction("Sniper Setup", "FORCE", 2, 7000),
   CoreAction("Quick Strike", "FORCE", 3, 6500)}

\* the changes execute_action makes to trust, tension and morale before it
\* clamps them
CoreChanges(action, success) ==
  IF ~success THEN [trust |-> 0, tension |-> 10, morale |-> -10]
  ELSE IF action.type = "NEGOTIATE" THEN [trust |-> 10, tension |-> -5, morale |-> 5]
  ELSE IF action.type = "TACTICAL" THEN [trust |-> 0, tension |-> -10, morale |-> 10]
  ELSE IF action.type = "SPECIAL" THEN [trust |-> 5, tension |-> -15, morale |-> 15]
  ELSE [trust |-> 0, tension |-> 20, morale |-> -5]

\* ActionSystem.execute_action past its action point test: the state it
\* leaves for a roll
execute_action(c, action, roll) ==
  LET success == roll < action.success_chance
      d == CoreChanges(action, success)
  IN  [c EXCEPT !.ap = @ - action.ap_cost,
                !.trust = Max(0, Min(100, @ + d.trust)),
                !.tension = Max(0, Min(100, @ + d.tension)),
                !.morale = Max(0, Min(100, @ + d.morale))]

(***************************************************************************)
(* Mutators of GameState                                                   *)
(***************************************************************************)
modify_trust(w, amount) ==
  [w EXCEPT !.gs.trust_level = Max(0, Min(ONE, @ + amount))]

\* a faulty variant that leaves out the clamp
modify_tension_unclamped(w, amount) ==
  [w EXCEPT !.gs.tension_level = @ + amount]

modify_tension(w, amount) ==
  [w EXCEPT !.gs.tension_level = Max(0, Min(ONE, @ + amount))]

modify_morale(w, amount) ==
  [w EXCEPT !.gs.morale_level = Max(0, Min(ONE, @ + amount))]

modify_player_resource(w, resource, amount) ==
  IF resource \in DOMAIN w.gs.player_resources
    THEN [w EXCEPT !.gs.player_resources[resource] = Max(0, @ + amount)]
    ELSE w

modify_ai_resource(w, resource, amount) ==
  IF resource \in DOMAIN w.gs.ai_resources
    THEN [w EXCEPT !.gs.ai_resources[resource] = Max(0, @ + amount)]
    ELSE w

modify_player_personnel(w, personnel_type, amount) ==
  IF personnel_type \in DOMAIN w.gs.player_personnel
    THEN [w EXCEPT !.gs.player_personnel[personnel_type] = Max(0, @ + amount)]
    ELSE w

modify_ai_personnel(w, personnel_type, amount) ==
  IF personnel_type \in DOMAIN w.gs.ai_personnel
    THEN [w EXCEPT !.gs.ai_personnel[personnel_type] = Max(0, @ + amount)]
    ELSE w

set_tactical_position(w, position, active) ==
  IF position \in DOMAIN w.gs.tactical_positions
    THEN [w EXCEPT !.gs.tactical_positions[position] = active]
    ELSE w

\* update_hostage_status(hostage_id, {'status': status, 'health': health});
\* "None" / -1 stand for a key the update does not carry.  The hostage's
\* fields are written first; the counter update for 'wounded' then reads
\* self.hostages_wounded, which game_state.GameState never defines, so the
\* call raises AttributeError with the fields already written.
update_hostage_status(w, hostage_id, status, health) ==
  LET h0 == w.gs.hostages_status[hostage_id]
      h1 == [h0 EXCEPT !.status = IF status = "None" THEN @ ELSE status,
                       !.health = IF health = -1 THEN @ ELSE health]
      w1 == [w EXCEPT !.gs.hostages_status[hostage_id] = h1]
  IN  CASE status = "killed" ->
             [w1 EXCEPT !.gs.hostages_killed = @ + 1]
        [] status = "wounded" ->
             [w1 EXCEPT !.raised = TRUE]
        [] status = "released" ->
             [w1 EXCEPT !.gs.hostages_released = @ + 1]
        [] OTHER -> w1

\* a plain dictionary store d[key] = value, which creates a missing key
Store(d, key, value) ==
  [k \in (DOMAIN d) \cup {key} |-> IF k = key THEN value ELSE d[k]]

\* update_environment for power_status and fire_status; the result is the set
\* of states the call can end in.  The new value is stored first, and the
\* transition tests then read self.environment[condition] again.  Past the
\* fire test, a roll below 0.5 reads ai_resources['exits_controlled'], a key
\* __init__ does not create (KeyError, before the stress loop).
update_environment(w, condition, value) ==
  IF condition \notin DOMAIN w.gs.environment THEN {w}
  ELSE
    LET w1 == [w EXCEPT !.gs.environment[condition] = value]
        cur == w1.gs.environment[condition]
        pr == w1.gs.player_resources
        burnt == [w1 EXCEPT !.gs.ai_resources.concealment = Max(0, @ - 3)]
        hs == burnt.gs.hostages_status
    IN  IF condition = "power_status" /\ value = "off" /\ cur # "off"
          THEN {[w1 EXCEPT
                   !.gs.player_resources =
                      [pr EXCEPT !.surveillance_cameras = Max(0, @ - 4),
                                 !.communications_equipment = Max(0, @ - 2)],
                   !.gs.ai_resources = Store(@, "electrical_access", 0)]}
        ELSE IF condition = "power_status" /\ value = "on" /\ cur # "on"
          THEN {[w1 EXCEPT
                   !.gs.player_resources =
                      [pr EXCEPT !.surveillance_cameras = Min(10, @ + 4),
                                 !.communications_equipment = Min(10, @ + 2)],
                   !.gs.ai_resources = Store(@, "electrical_access", 1)]}
        ELSE IF condition = "fire_status" /\ value # "none" /\ cur = "none"
          THEN {IF "exits_controlled" \in DOMAIN burnt.gs.ai_resources
                  THEN [burnt EXCEPT !.gs.ai_resources.exits_controlled = Max(0, @ - 1)]
                  ELSE [burnt EXCEPT !.raised = TRUE],
                [burnt EXCEPT
                   !.gs.hostages_status =
                      [h \in DOMAIN hs |->
                         IF hs[h].status = "captured"
                           THEN [hs[h] EXCEPT !.stress = Min(100, @ + 20)]
                           ELSE hs[h]]]}
        ELSE {w1}

add_action_cooldown(w, action_name, duration) ==
  LET cd == w.gs.action_cooldowns
  IN  [w EXCEPT !.gs.action_cooldowns =
         [n \in (DOMAIN cd) \cup {action_name} |->
            IF n = action_name THEN duration ELSE cd[n]]]

\* a faulty variant that drops a cooldown one turn early
update_cooldowns_early(w) ==
  LET cd == w.gs.action_cooldowns
      keep == {n \in DOMAIN cd : cd[n] - 1 > 1}
  IN  [w EXCEPT !.gs.action_cooldowns = [n \in keep |-> cd[n] - 1]]

\* a faulty variant that leaves the entries that have run out in the map
update_cooldowns_keeping_expired(w) ==
  LET cd == w.gs.action_cooldowns
  IN  [w EXCEPT !.gs.action_cooldowns = [n \in DOMAIN cd |-> cd[n] - 1]]

update_cooldowns(w) ==
  LET cd == w.gs.action_cooldowns
      keep == {n \in DOMAIN cd : cd[n] - 1 > 0}
  IN  [w EXCEPT !.gs.action_cooldowns = [n \in keep |-> cd[n] - 1]]

\* a faulty variant that never reports a cooldown
never_on_cooldown(g, action_name) == FALSE

is_action_on_cooldown(g, action_name) ==
  /\ action_name \in DOMAIN g.action_cooldowns
  /\ g.action_cooldowns[action_name] > 0

(***************************************************************************)
(* GameState.check_game_over: victory conditions first, then defeat        *)
(* conditions; the first test that holds decides and returns.              *)
(***************************************************************************)
AllReleased(g) == g.hostages_released = g.total_hostages

PeacefulSurrender(g) ==
  g.trust_level > 8000 /\ g.tension_level < 3000 /\ g.hostage_taker_morale < 3000

AIDepleted(g) ==
  g.ai_resources["manpower"] <= 0 /\ g.ai_personnel["armed_members"] <= 0

VictoryCondition(g) == AllReleased(g) \/ PeacefulSurrender(g) \/ AIDepleted(g)

\* a faulty variant that never tests the turn counter
DefeatReasonWithoutClock(g) ==
  IF g.hostages_killed > 3 THEN "Too many hostages killed"
  ELSE IF g.tension_level >= ONE THEN "Situation escalated out of control"
  ELSE IF g.hostage_deadline <= 0 /\ g.demands_met_money < g.demands_money
    THEN "Failed to meet demands before deadline"
  ELSE IF g.player_resources["manpower"] <= 0
          \/ g.player_personnel["negotiators"] <= 0
    THEN "Critical personnel lost"
  ELSE "None"

DefeatReasonOf(g) ==
  IF g.hostages_killed > 3 THEN "Too many hostages killed"
  ELSE IF g.tension_level >= ONE THEN "Situation escalated out of control"
  ELSE IF g.turn > g.max_turns THEN "Time ran out"
  ELSE IF g.hostage_deadline <= 0 /\ g.demands_met_money < g.demands_money
    THEN "Failed to meet demands before deadline"
  ELSE IF g.player_resources["manpower"] <= 0
          \/ g.player_personnel["negotiators"] <= 0
    THEN "Critical personnel lost"
  ELSE "None"

DefeatCondition(g) == DefeatReasonOf(g) # "None"

\* a faulty variant that tests the defeat conditions first
check_defeat_first(w) ==
  LET g == w.gs
  IN  IF DefeatCondition(g)
        THEN [w EXCEPT !.gs.game_over = TRUE, !.gs.victory = FALSE,
                       !.gs.defeat_reason = DefeatReasonOf(g)]
      ELSE IF VictoryCondition(g)
        THEN [w EXCEPT !.gs.game_over = TRUE, !.gs.victory = TRUE]
      ELSE w

check_game_over(w) ==
  LET g == w.gs
  IN  IF VictoryCondition(g)
        THEN [w EXCEPT !.gs.game_over = TRUE, !.gs.victory = TRUE]
      ELSE IF DefeatCondition(g)
        THEN [w EXCEPT !.gs.game_over = TRUE, !.gs.victory = FALSE,
                       !.gs.defeat_reason = DefeatReasonOf(g)]
      ELSE w

(***************************************************************************)
(* GameState.get_dynamic_success_chance                                    *)
(***************************************************************************)
ChanceModifiers(g, action_category) ==
    (IF action_category \in {"NEGOTIATE", "TACTICAL"} /\ g.trust_level > 7000
       THEN 500 ELSE 0)
  + (IF action_category \in {"FORCE", "SPECIAL"} /\ g.tension_level > 7000
       THEN -500 ELSE 0)
  + (IF g.morale_level < 3000 /\ action_category = "SPECIAL" THEN -1000
     ELSE IF g.morale_level > 7000 THEN 500 ELSE 0)
  + (IF g.last_action_category = "NEGOTIATE" /\ g.last_action_success
        /\ action_category = "NEGOTIATE" THEN 1000 ELSE 0)
  + (IF g.last_action_category = "FORCE" /\ ~g.last_action_success
        /\ action_category = "NEGOTIATE" THEN -1000 ELSE 0)
  + (IF g.environment["power_status"] # "on" /\ action_category = "TECH"
       THEN -1500 ELSE 0)
  + (IF g.environment["fire_status"] # "none" /\ action_category = "FORCE"
       THEN -1000 ELSE 0)

\* a faulty variant that leaves out the final clamp
unclamped_success_chance(g, action_category, base_chance) ==
  base_chance + ChanceModifiers(g, action_category)

get_dynamic_success_chance(g, action_category, base_chance) ==
  Max(MIN_CHANCE, Min(MAX_CHANCE, base_chance + ChanceModifiers(g, action_category)))

(***************************************************************************)
(* The action catalog (ActionSystem._initialize_actions and the faction    *)
(* specials): the entries the model plays.  A consequence carries the      *)
(* keys _apply_consequences reads, with its defaults filled in.            *)
(***************************************************************************)
ResourceCons(resource_type, amount) ==
  [type |-> "resource", key |-> resource_type, amount |-> amount,
   value |-> "None", count |-> 0, probability |-> ONE, on_cf |-> FALSE]

AIResourceCons(resource_type, amount, probability) ==
  [type |-> "ai_resource", key |-> resource_type, amount |-> amount,
   value |-> "None", count |-> 0, probability |-> probability, on_cf |-> FALSE]

PublicCons(public_type, amount) ==
  [type |-> "public", key |-> public_type, amount |-> amount,
   value |-> "None", count |-> 0, probability |-> ONE, on_cf |-> FALSE]

TacticalCons(position) ==
  [type |-> "tactical", key |-> position, amount |-> 0,
   value |-> "True", count |-> 0, probability |-> ONE, on_cf |-> FALSE]

HostageCons(effect, count, probability) ==
  [type |-> "hostage", key |-> "captured", amount |-> 0,
   value |-> effect, count |-> count, probability |-> probability, on_cf |-> FALSE]

EnvironmentalCons(condition, value, probability) ==
  [type |-> "environmental", key |-> condition, amount |-> 0,
   value |-> value, count |-> 0, probability |-> probability, on_cf |-> TRUE]

DeadlineCons(amount) ==
  [type |-> "deadline", key |-> "None", amount |-> amount,
   value |-> "None", count |-> 0, probability |-> ONE, on_cf |-> FALSE]

OpenCommunication ==
  GameAction("Open Communication", ActionCategory.DIALOGUE, 1, 8500, << >>,
             << >>, << >>,
             << ResourceCons("intelligence", 1), PublicCons("media_control", 5) >>,
             FALSE, {})

PositionSnipers ==
  GameAction("Position Snipers", ActionCategory.FORCE, 3, 7000, << >>,
             << <<"tactical_gear", 1>> >>, << <<"snipers", 2>> >>,
             << TacticalCons("sniper_positions"), AIResourceCons("concealment", -2, ONE) >>,
             FALSE, {})

MakeOffer ==
  GameAction("Make Offer", ActionCategory.NEGOTIATION, 2, 7000, << >>,
             << <<"negotiation_leverage", 1>>, <<"money", 1000000>> >>, << >>,
             << AIResourceCons("money_demanded", -2000000, ONE),
                HostageCons("release", 1, 6000) >>,
             FALSE, {})

VerbalWarning ==
  GameAction("Verbal Warning", ActionCategory.THREATS, 1, 5500, << >>,
             << >>, << >>,
             << AIResourceCons("leverage", -1, ONE) >>,
             FALSE, {})

Ultimatum ==
  GameAction("Ultimatum", ActionCategory.THREATS, 3, 5000, << >>,
             << <<"political_influence", 1>>, <<"negotiation_leverage", 2>> >>, << >>,
             << HostageCons("release", 2, 4000),
                EnvironmentalCons("power_status", "off", 6000) >>,
             FALSE, {})

RapidResponseTeam ==
  GameAction("Rapid Response Team", ActionCategory.FORCE, 1, 9000,
             << "TACTICAL_ADVANTAGE", "TENSION_INCREASE" >>,
             << >>, << >>, << >>, TRUE, {Faction.FBI})

CommunityOutreach ==
  GameAction("Community Outreach", ActionCategory.RESOURCES, 2, 8500,
             << "RESOURCE_GAIN", "TRUST_INCREASE" >>,
             << >>, << >>, << >>, TRUE, {Faction.LOCAL_PD})

ShadowProtocol ==
  GameAction("Shadow Protocol", ActionCategory.TECH, 3, 8000,
             << "EXTRA_ACTION_POINTS", "TACTICAL_ADVANTAGE" >>,
             << >>, << >>, << >>, TRUE, {Faction.CIA})

IdeologicalSpeech ==
  GameAction("Ideological Speech", ActionCategory.DIALOGUE, 1, 9000,
             << "MORALE_INCREASE", "TRUST_DECREASE" >>,
             << >>, << >>, << >>, TRUE, {Faction.LIBERATION_FRONT})

AllActions ==
  {OpenCommunication, PositionSnipers, MakeOffer, VerbalWarning, Ultimatum,
   RapidResponseTeam, CommunityOutreach, ShadowProtocol, IdeologicalSpeech}

\* the outcomes of the test random.random() < p (or <= p)
Chance(p) == IF p >= ONE THEN {TRUE} ELSE IF p <= 0 THEN {FALSE} ELSE BOOLEAN

(***************************************************************************)
(* GameState.update_state_after_action                                     *)
(***************************************************************************)
\* the category shifts of a successful action, compared against the
\* upper-case names the code tests; mult is the effect multiplier in
\* hundredths (100 for update_state_after_action, which does not scale)
CategoryShift(w, category, mult) ==
  CASE category = "DIALOGUE" ->
         modify_tension(modify_trust(w, 10 * mult), -(5 * mult))
    [] category = "FORCE" ->
         modify_tension(modify_trust(w, -(10 * mult)), 15 * mult)
    [] category = "TECH" ->
         modify_tension(modify_morale(w, 15 * mult), -(10 * mult))
    [] category = "NEGOTIATION" ->
         modify_tension(modify_trust(w, 15 * mult), -(10 * mult))
    [] category = "RESOURCES" ->
         modify_morale(w, 10 * mult)
    [] category = "THREATS" ->
         modify_tension(modify_trust(w, -(10 * mult)), 20 * mult)
    [] OTHER -> w

TacticalByName(w, action_name, success) ==
  IF action_name = "Position Snipers" /\ success
    THEN [w EXCEPT !.gs.tactical_positions["sniper_positions"] = TRUE]
  ELSE IF action_name = "Surveillance Deployment" /\ success
    THEN [w EXCEPT !.gs.tactical_positions["surveillance"] = TRUE]
  ELSE IF action_name = "Deploy Breach Team" /\ success
    THEN [w EXCEPT !.gs.tactical_positions["breach_points"] = TRUE]
  ELSE w

CapturedIds(g) == {i \in HostageIds : g.hostages_status[i].status = "captured"}

\* a faulty variant that draws the hostage to wound from the whole roster
TensionWoundingAnyHostage(w) ==
  LET g == w.gs
  IN  IF g.tension_level >= 8000
        THEN {w} \cup {update_hostage_status(w, i, "wounded", 50) : i \in HostageIds}
        ELSE {w}

\* tension >= 0.8 and random.random() < 0.3: a captured hostage at full
\* health is set to wounded through update_hostage_status
TensionWounding(w) ==
  LET g == w.gs
      available == {i \in CapturedIds(g) : g.hostages_status[i].health = 100}
  IN  IF g.tension_level >= 8000
        THEN {w} \cup {update_hostage_status(w, i, "wounded", 50) : i \in available}
        ELSE {w}

\* the hostage-taker reactions to the outcome
TakerReaction(w, category, success) ==
  IF success /\ category = "FORCE" THEN
    LET w1 == [w EXCEPT !.gs.hostage_taker_morale = @ - 1000]
    IN  {w1, modify_ai_personnel(w1, "armed_members", -1)}
  ELSE IF success /\ category = "NEGOTIATION" THEN
    IF w.gs.trust_level > 6000
      THEN LET w1 == [w EXCEPT !.gs.hostage_taker_morale = @ - 500]
           IN  {w1} \cup {update_hostage_status(w1, i, "released", -1) :
                            i \in CapturedIds(w1.gs)}
      ELSE {w}
  ELSE IF ~success /\ category = "FORCE" THEN
    {w, modify_player_personnel(w, "tactical_team", -1)}
  ELSE {w}

\* GameState.track_player_action and AIOpponent.track_player_action: the
\* action is counted if the opponent has been created
track_player_action(w, action_category) ==
  IF w.ai.exists
    THEN [w EXCEPT !.ai.player_action_history[action_category] = @ + 1,
                   !.ai.adaptation_level = Min(ONE, @ + 1000)]
    ELSE w

update_state_after_action(w, action_name, category, success) ==
  LET w0 == track_player_action(w, category)
      w1 == [w0 EXCEPT !.gs.last_action_category = category,
                       !.gs.last_action_success = success]
      w2 == IF success THEN CategoryShift(w1, category, 100)
                       ELSE modify_tension(w1, 1500)
      w3 == TacticalByName(w2, action_name, success)
      Rest(w4) ==
        LET w5 == IF category = "NEGOTIATION" /\ success
                    THEN [w4 EXCEPT !.gs.hostage_deadline = @ + 1] ELSE w4
        IN  {check_game_over(w6) : w6 \in TakerReaction(w5, category, success)}
  IN  UNION {IF w4.raised THEN {w4} ELSE Rest(w4) : w4 \in TensionWounding(w3)}

(***************************************************************************)
(* GameAction.perform and its helpers                                      *)
(***************************************************************************)
RECURSIVE ApplyResourceCosts(_, _, _)
ApplyResourceCosts(w, costs, i) ==
  IF i > Len(costs) THEN w
  ELSE ApplyResourceCosts(modify_player_resource(w, costs[i][1], -costs[i][2]),
                          costs, i + 1)

RECURSIVE ApplyPersonnelCosts(_, _, _)
ApplyPersonnelCosts(w, costs, i) ==
  IF i > Len(costs) THEN w
  ELSE ApplyPersonnelCosts(modify_player_personnel(w, costs[i][1], -costs[i][2]),
                           costs, i + 1)

apply_costs(w, action) ==
  ApplyPersonnelCosts(ApplyResourceCosts(w, action.resource_cost, 1),
                      action.personnel_cost, 1)

\* a faulty variant that leaves a picked hostage in the pool
RECURSIVE HostageLoopWithReplacement(_, _, _, _)
HostageLoopWithReplacement(w, pool, n, effect) ==
  IF n = 0 \/ pool = {} \/ w.raised THEN {w}
  ELSE UNION {
         LET h == w.gs.hostages_status[i]
             w1 == CASE effect = "release" ->
                          update_hostage_status(w, i, "released", -1)
                     [] effect = "wound" ->
                          update_hostage_status(w, i, "wounded", Max(h.health - 50, 10))
                     [] effect = "kill" ->
                          update_hostage_status(w, i, "killed", 0)
                     [] OTHER -> w
         IN  HostageLoopWithReplacement(w1, pool, n - 1, effect) : i \in pool}

\* the loop over random hostages: up to count picks without replacement
RECURSIVE HostageLoop(_, _, _, _)
HostageLoop(w, pool, n, effect) ==
  IF n = 0 \/ pool = {} \/ w.raised THEN {w}
  ELSE UNION {
         LET h == w.gs.hostages_status[i]
             w1 == CASE effect = "release" ->
                          update_hostage_status(w, i, "released", -1)
                     [] effect = "wound" ->
                          update_hostage_status(w, i, "wounded", Max(h.health - 50, 10))
                     [] effect = "kill" ->
                          update_hostage_status(w, i, "killed", 0)
                     [] OTHER -> w
         IN  HostageLoop(w1, pool \ {i}, n - 1, effect) : i \in pool}

\* amount scaled by the critical status: int(amount * 1.5), int(amount * 0.5)
ScaledAmount(amount, critical_success, critical_failure) ==
  IF critical_success THEN TruncDiv(amount * 3, 2)
  ELSE IF critical_failure THEN TruncDiv(amount, 2)
  ELSE amount

PublicCap(public_type) ==
  IF public_type = "media_control" THEN 100 ELSE 10

\* a faulty variant that applies a resource consequence on any outcome
ApplyOneConsequenceOnAnyOutcome(w, c, success, critical_success, critical_failure) ==
  LET triggers == success \/ (critical_failure /\ c.on_cf)
  IN  CASE c.type = "environmental" ->
             IF triggers THEN update_environment(w, c.key, c.value) ELSE {w}
        [] c.type = "hostage" ->
             IF triggers
               THEN LET pool == {i \in HostageIds :
                                   w.gs.hostages_status[i].status = c.key}
                    IN  HostageLoop(w, pool, Min(c.count, Cardinality(pool)), c.value)
               ELSE {w}
        [] c.type = "ai_personnel" ->
             IF success THEN {modify_ai_personnel(w, c.key, c.amount)} ELSE {w}
        [] c.type = "resource" ->
             IF TRUE
               THEN {modify_player_resource(w, c.key,
                       ScaledAmount(c.amount, critical_success, critical_failure))}
               ELSE {w}
        [] c.type = "ai_resource" ->
             IF success
               THEN {modify_ai_resource(w, c.key,
                       ScaledAmount(c.amount, critical_success, critical_failure))}
               ELSE {w}
        [] c.type = "tactical" ->
             IF success THEN {set_tactical_position(w, c.key, TRUE)} ELSE {w}
        [] c.type = "deadline" ->
             IF success THEN {[w EXCEPT !.gs.hostage_deadline = @ + c.amount]}
                        ELSE {w}
        [] c.type = "public" ->
             IF success /\ c.key \in {"media_control", "public_support",
                                      "political_influence"}
               THEN {[w EXCEPT !.gs.player_resources[c.key] =
                        Max(0, Min(PublicCap(c.key), @ + c.amount))]}
               ELSE {w}
        [] OTHER -> {w}

\* one consequence whose probability roll has passed
ApplyOneConsequence(w, c, success, critical_success, critical_failure) ==
  LET triggers == success \/ (critical_failure /\ c.on_cf)
  IN  CASE c.type = "environmental" ->
             IF triggers THEN update_environment(w, c.key, c.value) ELSE {w}
        [] c.type = "hostage" ->
             IF triggers
               THEN LET pool == {i \in HostageIds :
                                   w.gs.hostages_status[i].status = c.key}
                    IN  HostageLoop(w, pool, Min(c.count, Cardinality(pool)), c.value)
               ELSE {w}
        [] c.type = "ai_personnel" ->
             IF success THEN {modify_ai_personnel(w, c.key, c.amount)} ELSE {w}
        [] c.type = "resource" ->
             IF success
               THEN {modify_player_resource(w, c.key,
                       ScaledAmount(c.amount, critical_success, critical_failure))}
               ELSE {w}
        [] c.type = "ai_resource" ->
             IF success
               THEN {modify_ai_resource(w, c.key,
                       ScaledAmount(c.amount, critical_success, critical_failure))}
               ELSE {w}
        [] c.type = "tactical" ->
             IF success THEN {set_tactical_position(w, c.key, TRUE)} ELSE {w}
        [] c.type = "deadline" ->
             IF success THEN {[w EXCEPT !.gs.hostage_deadline = @ + c.amount]}
                        ELSE {w}
        [] c.type = "public" ->
             IF success /\ c.key \in {"media_control", "public_support",
                                      "political_influence"}
               THEN {[w EXCEPT !.gs.player_resources[c.key] =
                        Max(0, Min(PublicCap(c.key), @ + c.amount))]}
               ELSE {w}
        [] OTHER -> {w}

RECURSIVE ConsequenceLoop(_, _, _, _, _, _)
ConsequenceLoop(w, cons, i, success, critical_success, critical_failure) ==
  IF i > Len(cons) \/ w.raised THEN {w}
  ELSE UNION {
         UNION {ConsequenceLoop(w1, cons, i + 1, success, critical_success,
                                critical_failure) :
                  w1 \in IF fires
                           THEN ApplyOneConsequence(w, cons[i], success,
                                                    critical_success, critical_failure)
                           ELSE {w}} :
         fires \in Chance(cons[i].probability)}

apply_consequences(w, action, success, critical_success, critical_failure) ==
  ConsequenceLoop(w, action.consequences, 1, success, critical_success,
                  critical_failure)

\* the outcome classes GameAction.perform derives from the roll
Outcome(target, roll) ==
  LET success == roll < target
  IN  [success |-> success,
       critical_success |-> success /\ roll * 20 < target,
       critical_failure |-> ~success /\ roll > ONE - 500,
       partial_success |-> success /\ roll > target - 1000,
       target |-> target]

\* GameAction.perform: the worlds it can leave behind
perform(w, action, roll) ==
  LET target == get_dynamic_success_chance(w.gs, action.category,
                                           action.base_success_chance)
      o == Outcome(target, roll)
      w1 == IF action.action_points >= 3 \/ o.critical_success \/ o.critical_failure
              THEN add_action_cooldown(w, action.name, COOLDOWN_TURNS)
              ELSE w
  IN  UNION {IF w2.raised THEN {w2}
             ELSE apply_consequences(apply_costs(w2, action), action, o.success,
                                     o.critical_success, o.critical_failure) :
             w2 \in update_state_after_action(w1, action.name, action.category,
                                              o.success)}

(***************************************************************************)
(* ActionSystem.perform_action                                             *)
(***************************************************************************)
get_game_stage(turn) ==
  IF turn <= 5 THEN "early_game"
  ELSE IF turn <= 12 THEN "mid_game"
  ELSE "late_game"

\* the effect multiplier of a successful action, in hundredths
EffectMultiplier(turn, o) ==
  LET stage == get_game_stage(turn)
      base == IF stage = "early_game" THEN 50
              ELSE IF stage = "mid_game" THEN 100 ELSE 150
  IN  IF o.critical_success THEN (base * 3) \div 2
      ELSE IF o.partial_success THEN base \div 2
      ELSE base

RECURSIVE ReleaseLoop(_, _, _)
ReleaseLoop(w, pool, n) ==
  IF n = 0 \/ pool = {} THEN {w}
  ELSE UNION {ReleaseLoop(update_hostage_status(w, i, "released", -1),
                          pool \ {i}, n - 1) : i \in pool}

\* ActionSystem._apply_effect; mult is the multiplier in hundredths
apply_effect(w, effect, mult) ==
  CASE effect = "TRUST_INCREASE" -> {modify_trust(w, 10 * mult)}
    [] effect = "TRUST_DECREASE" -> {modify_trust(w, -(10 * mult))}
    [] effect = "TENSION_INCREASE" -> {modify_tension(w, 10 * mult)}
    [] effect = "TENSION_DECREASE" -> {modify_tension(w, -(10 * mult))}
    [] effect = "MORALE_INCREASE" -> {modify_morale(w, 10 * mult)}
    [] effect = "MORALE_DECREASE" -> {modify_morale(w, -(10 * mult))}
    [] effect = "HOSTAGE_RELEASE" ->
         LET pool == CapturedIds(w.gs)
             release_count == Max(1, mult \div 100)
         IN  ReleaseLoop(w, pool, Min(release_count, Cardinality(pool)))
    [] effect = "RESOURCE_GAIN" ->
         {modify_player_resource(w, "intelligence", mult \div 100)}
    [] effect = "TACTICAL_ADVANTAGE" ->
         LET inactive == {p \in DOMAIN w.gs.tactical_positions :
                            ~w.gs.tactical_positions[p]}
         IN  IF inactive = {} THEN {w}
             ELSE {set_tactical_position(w, p, TRUE) : p \in inactive}
    [] effect = "EXTRA_ACTION_POINTS" ->
         {[w EXCEPT !.gs.next_turn_extra_ap = @ + Max(1, mult \div 100)]}
    [] OTHER -> {w}

RECURSIVE EffectLoop(_, _, _, _)
EffectLoop(w, effects, i, mult) ==
  IF i > Len(effects) THEN {w}
  ELSE UNION {EffectLoop(w1, effects, i + 1, mult) :
                w1 \in apply_effect(w, effects[i], mult)}

Rejected(message) ==
  [status |-> "rejected", success |-> FALSE, critical_success |-> FALSE,
   critical_failure |-> FALSE, partial_success |-> FALSE, message |-> message]

Resolved(o, status) ==
  [status |-> status, success |-> o.success,
   critical_success |-> o.critical_success,
   critical_failure |-> o.critical_failure,
   partial_success |-> o.partial_success,
   message |-> IF o.success THEN "None"
               ELSE IF o.critical_failure THEN "Critical failure"
               ELSE "Failed to perform"]

\* what perform_action does once GameAction.perform has returned world w2
AfterPerform(w2, action, o) ==
  LET w3 == [w2 EXCEPT !.gs.action_points = @ - action.action_points]
      mult == EffectMultiplier(w3.gs.turn, o)
  IN  IF o.success
        THEN EffectLoop(CategoryShift(w3, action.category, mult),
                        action.effects, 1, mult)
      ELSE IF o.critical_failure THEN {modify_tension(w3, 2200)}
      ELSE {modify_tension(w3, 1500)}

\* perform_action(game_state, action): every (world, result) pair the call
\* can end with for this roll
perform_action(w, action, roll) ==
  IF w.gs.action_points < action.action_points
    THEN {[w |-> w, result |-> Rejected("Not enough action points")]}
  ELSE IF is_action_on_cooldown(w.gs, action.name)
    THEN {[w |-> w, result |-> Rejected("Action is on cooldown")]}
  ELSE
    LET target == get_dynamic_success_chance(w.gs, action.category,
                                             action.base_success_chance)
        o == Outcome(target, roll)
    IN  UNION {IF w2.raised
                 THEN {[w |-> w2, result |-> Resolved(o, "raised")]}
                 ELSE {[w |-> w3, result |-> Resolved(o, "returned")] :
                         w3 \in AfterPerform(w2, action, o)} :
               w2 \in perform(w, action, roll)}

\* ActionSystem.get_available_actions(game_state): the actions of every
\* category that are not on cooldown (the lists of the result, as one set);
\* faction is read from the state and not used
ActionSystem_get_available_actions(g) ==
  {a \in AllActions : ~is_action_on_cooldown(g, a.name)}

(***************************************************************************)
(* The adversary (core/ai_opponent.py).  AIAction.consequences is never    *)
(* filled by _initialize_actions, so _apply_effects applies the category   *)
(* effects alone.                                                          *)
(***************************************************************************)
AIAction(name, category, chance, ap) ==
  [name |-> name, category |-> category, base_success_chance |-> chance,
   action_points |-> ap]

StallForTime == AIAction("Stall For Time", "NEGOTIATION", 8000, 1)
ThreatenHostage == AIAction("Threaten Hostage", "FORCE", 7500, 1)
ExecuteHostage == AIAction("Execute Hostage", "FORCE", 5000, 3)
SetDeadline == AIAction("Set Deadline", "DEMANDS", 9000, 1)
FeignWeakness == AIAction("Feign Weakness", "DECEPTION", 7000, 2)
IntimidateNegotiators == AIAction("Intimidate Negotiators", "PSYCHOLOGICAL", 6000, 1)
SecureEscapeRoute == AIAction("Secure Escape Route", "TACTICAL", 7000, 2)

AllAIActions ==
  {StallForTime, ThreatenHostage, ExecuteHostage, SetDeadline, FeignWeakness,
   IntimidateNegotiators, SecureEscapeRoute}

\* a faulty variant that refuses an action costing all the points left
is_valid_below_budget(a, g, ai_points) ==
  /\ a.action_points < ai_points
  /\ a.category = "FORCE" =>
       /\ g.ai_resources["manpower"] > 0
       /\ g.ai_personnel["armed_members"] > 0
       /\ (a.name = "Execute Hostage" => CapturedIds(g) # {})
  /\ a.category = "NEGOTIATION" => g.trust_level >= 1000
  /\ a.category = "TACTICAL" => g.ai_resources["manpower"] > 0

\* AIAction.is_valid
is_valid(a, g, ai_points) ==
  /\ a.action_points <= ai_points
  /\ a.category = "FORCE" =>
       /\ g.ai_resources["manpower"] > 0
       /\ g.ai_personnel["armed_members"] > 0
       /\ (a.name = "Execute Hostage" => CapturedIds(g) # {})
  /\ a.category = "NEGOTIATION" => g.trust_level >= 1000
  /\ a.category = "TACTICAL" => g.ai_resources["manpower"] > 0

\* a faulty variant that offers the valid actions whatever they cost
get_available_actions_at_any_cost(pool, w) ==
  {a \in pool : is_valid(a, w.gs, Max(w.ai.action_points, a.action_points))}

\* AIBehaviorType.value
AIBehaviorType ==
  [AGGRESSIVE |-> "Aggressive", DEFENSIVE |-> "Defensive", ERRATIC |-> "Erratic",
   CALCULATING |-> "Calculating", DESPERATE |-> "Desperate"]

BehaviorValues == {AIBehaviorType[k] : k \in DOMAIN AIBehaviorType}

\* the keys of player_action_history in the order they were inserted
CategoryOrder ==
  << ActionCategory.DIALOGUE, ActionCategory.RESOURCES, ActionCategory.FORCE,
     ActionCategory.TECH, ActionCategory.NEGOTIATION, ActionCategory.THREATS >>

\* max(history.items(), key = count)[0]: the first key with the largest count
MostCommon(history) ==
  LET best == CHOOSE i \in 1 .. Len(CategoryOrder) :
                /\ \A j \in 1 .. Len(CategoryOrder) :
                     history[CategoryOrder[j]] <= history[CategoryOrder[i]]
                /\ \A j \in 1 .. (i - 1) :
                     history[CategoryOrder[j]] < history[CategoryOrder[i]]
  IN  CategoryOrder[best]

\* the archetype the histogram gives, compared with the upper-case names
\* the code tests
HistogramBehavior(a, behavior) ==
  LET most_common == MostCommon(a.player_action_history)
  IN  IF a.adaptation_level > 5000
        THEN IF most_common = "FORCE" THEN AIBehaviorType.DEFENSIVE
             ELSE IF most_common = "NEGOTIATION" THEN AIBehaviorType.CALCULATING
             ELSE IF most_common = "TECH" THEN AIBehaviorType.ERRATIC
             ELSE behavior
        ELSE behavior

\* a faulty variant that tests tension before morale
adapt_behavior_tension_first(a, g, behavior) ==
  IF g.tension_level > 8000 THEN AIBehaviorType.ERRATIC
  ELSE IF g.hostage_taker_morale < 3000 THEN AIBehaviorType.DESPERATE
  ELSE HistogramBehavior(a, behavior)

\* AIOpponent.adapt_behavior: the behavior_type it leaves
adapt_behavior(a, g, behavior) ==
  IF g.hostage_taker_morale < 3000 THEN AIBehaviorType.DESPERATE
  ELSE IF g.tension_level > 8000 THEN AIBehaviorType.ERRATIC
  ELSE HistogramBehavior(a, behavior)

RECURSIVE CumulativeWeight(_, _)
\* current_weight after the first n items of the list
CumulativeWeight(weighted_items, n) ==
  IF n = 0 THEN 0
           ELSE CumulativeWeight(weighted_items, n - 1) + weighted_items[n].weight

\* a faulty variant that stops at the first cumulative weight r has reached
weighted_choice_inclusive(weighted_items, r) ==
  LET n == Len(weighted_items)
      total_weight == CumulativeWeight(weighted_items, n)
      passed == {i \in 1 .. n : CumulativeWeight(weighted_items, i) >= r}
  IN  IF n = 0 THEN "None"
      ELSE IF total_weight <= 0 THEN "None"
      ELSE IF passed # {}
        THEN weighted_items[CHOOSE i \in passed : \A j \in passed : i <= j].item
        ELSE weighted_items[n].item

\* AIOpponent._weighted_choice for the draw r of random.uniform(0, total_weight)
weighted_choice(weighted_items, r) ==
  LET n == Len(weighted_items)
      total_weight == CumulativeWeight(weighted_items, n)
      passed == {i \in 1 .. n : CumulativeWeight(weighted_items, i) > r}
  IN  IF n = 0 THEN "None"
      ELSE IF total_weight <= 0 THEN "None"
      ELSE IF passed # {}
        THEN weighted_items[CHOOSE i \in passed : \A j \in passed : i <= j].item
        ELSE weighted_items[n].item

\* AIOpponent.get_available_actions over the pool that is played
get_available_actions(pool, w) ==
  {a \in pool : a.action_points <= w.ai.action_points
                /\ is_valid(a, w.gs, w.ai.action_points)}

\* a faulty variant in which a successful Execute Hostage kills a captured
\* hostage
ai_apply_effects_with_execution(w, a, o) ==
  IF o.success /\ a.category = "FORCE"
    THEN LET w1 == modify_tension(w, 15)
         IN  IF a.name = "Execute Hostage"
               THEN {w1} \cup {update_hostage_status(w1, i, "killed", 0) :
                                 i \in CapturedIds(w1.gs)}
               ELSE {w1}
    ELSE {w}

\* AIAction._apply_effects
ai_apply_effects(w, a, o) ==
  LET m == IF o.critical_success THEN 150
           ELSE IF o.critical_failure THEN 50 ELSE 100
  IN  IF o.success THEN
        CASE a.category = "NEGOTIATION" ->
               LET w1 == modify_trust(
                           [w EXCEPT !.gs.hostage_taker_morale = @ + 10 * m],
                           -(10 * m))
               IN  {w1, [w1 EXCEPT !.gs.ai_resources["money_demanded"] =
                                     @ + 10000 * m]}
          [] a.category = "FORCE" ->
               LET w1 == modify_tension(w, 15 * m)
                   available == {i \in CapturedIds(w1.gs) :
                                   w1.gs.hostages_status[i].health > 50}
               IN  {w1} \cup
                   {update_hostage_status(w1, i, "None",
                       Max(10, w1.gs.hostages_status[i].health - 40)) :
                      i \in available}
          [] a.category = "DEMANDS" ->
               LET reduction == Max(1, (2 * m) \div 100)
               IN  {w, [w EXCEPT !.gs.hostage_deadline = Max(1, @ - reduction)]}
          [] a.category = "DECEPTION" ->
               {modify_player_resource(modify_trust(w, -(15 * m)),
                                       "intelligence", -1)}
          [] a.category = "PSYCHOLOGICAL" ->
               {modify_player_resource(modify_morale(w, -(20 * m)),
                                       "public_support", -1)}
          [] a.category = "TACTICAL" ->
               {modify_player_resource(
                  [w EXCEPT !.gs.ai_resources["concealment"] = Min(10, @ + 1)],
                  "surveillance_cameras", -1)}
          [] OTHER -> {w}
      ELSE
        LET w1 == [w EXCEPT !.gs.hostage_taker_morale = @ - 1000]
        IN  {w1, modify_player_resource(w1, "intelligence", 1)}

\* AIAction.perform: the roll is compared with the action's own chance,
\* which nothing updates after construction
ai_perform(w, a, roll) ==
  LET o == Outcome(a.base_success_chance, roll)
  IN  {[w |-> w1, result |-> Resolved(o, "returned")] :
         w1 \in ai_apply_effects(w, a, o)}

\* the head of end_turn and process_ai_turn up to the loop of take_turn:
\* the opponent is created on first use and starts the turn with 3 points
begin_ai_turn(w) ==
  [w EXCEPT !.ai.exists = TRUE, !.ai.action_points = BASE_AP,
            !.ai_actions = << >>]

\* the loop of take_turn: while the opponent has points and a valid action,
\* one is selected (every weight is positive, so any available action can
\* be drawn), performed and paid for; a successful Execute Hostage breaks
\* the entry take_turn appends to turn_results
TurnResult(a, result) ==
  [action_name |-> a.name, category |-> a.category, success |-> result.success]

\* turn_results.append(...)
Logged(w, a, result) ==
  IF w.observed THEN [w EXCEPT !.ai_actions = Append(@, TurnResult(a, result))]
                ELSE w

\* a faulty variant that charges one point for every action and goes on
\* after a successful Execute Hostage
RECURSIVE take_turn_loop_past_execution(_, _, _)
take_turn_loop_past_execution(w, pool, rolls) ==
  LET available == get_available_actions(pool, w)
  IN  IF w.ai.action_points <= 0 \/ available = {} THEN {w}
      ELSE UNION {
             UNION {
               take_turn_loop_past_execution(
                 Logged([r.w EXCEPT !.ai.action_points = @ - 1], a, r.result),
                 pool, rolls) :
               r \in ai_perform(w, a, roll)} :
             a \in available, roll \in rolls}

RECURSIVE take_turn_loop(_, _, _)
take_turn_loop(w, pool, rolls) ==
  LET available == get_available_actions(pool, w)
  IN  IF w.ai.action_points <= 0 \/ available = {} THEN {w}
      ELSE UNION {
             UNION {
               LET w1 == Logged([r.w EXCEPT !.ai.action_points = @ - a.action_points],
                                a, r.result)
               IN  IF a.name = "Execute Hostage" /\ r.result.success
                     THEN {w1}
                     ELSE take_turn_loop(w1, pool, rolls) :
               r \in ai_perform(w, a, roll)} :
             a \in available, roll \in rolls}

\* a faulty variant whose stress is not capped
RECURSIVE DeteriorateUncapped(_, _)
DeteriorateUncapped(w, ids) ==
  IF ids = {} THEN {w}
  ELSE
    LET i == CHOOSE x \in ids : \A y \in ids : x <= y
        h == w.gs.hostages_status[i]
        stressed == [w EXCEPT !.gs.hostages_status[i].stress = @ + 5]
        hurt == [stressed EXCEPT !.gs.hostages_status[i].health = Max(10, @ - 5)]
        outs == IF h.status # "captured" THEN {w}
                ELSE IF Min(100, h.stress + 5) > 90 THEN {stressed, hurt}
                ELSE {stressed}
    IN  UNION {DeteriorateUncapped(w1, ids \ {i}) : w1 \in outs}

\* natural hostage deterioration of end_turn: stress rises by 5 for every
\* captured hostage; above 90, a 20% roll costs 5 health
RECURSIVE Deteriorate(_, _)
Deteriorate(w, ids) ==
  IF ids = {} THEN {w}
  ELSE
    LET i == CHOOSE x \in ids : \A y \in ids : x <= y
        h == w.gs.hostages_status[i]
        stressed == [w EXCEPT !.gs.hostages_status[i].stress = Min(100, @ + 5)]
        hurt == [stressed EXCEPT !.gs.hostages_status[i].health = Max(10, @ - 5)]
        outs == IF h.status # "captured" THEN {w}
                ELSE IF Min(100, h.stress + 5) > 90 THEN {stressed, hurt}
                ELSE {stressed}
    IN  UNION {Deteriorate(w1, ids \ {i}) : w1 \in outs}

\* a faulty variant that reopens the game for the new turn
advance_turn_reopening(w) ==
  LET w1 == [w EXCEPT !.gs.turn = @ + 1,
                      !.gs.action_points = BASE_AP + w.gs.next_turn_extra_ap,
                      !.gs.next_turn_extra_ap = 0,
                      !.gs.hostage_deadline = @ - 1]
  IN  {[w2 EXCEPT !.gs.game_over = FALSE] :
         w2 \in Deteriorate(update_cooldowns(w1), HostageIds)}

\* a faulty variant that grants the carried bonus and keeps it for the turn
\* after
advance_turn_keeping_bonus(w) ==
  LET w1 == [w EXCEPT !.gs.turn = @ + 1,
                      !.gs.action_points = BASE_AP + w.gs.next_turn_extra_ap]
      w2 == update_cooldowns(w1)
      w3 == [w2 EXCEPT !.gs.hostage_deadline = @ - 1]
  IN  {check_game_over(w4) : w4 \in Deteriorate(w3, HostageIds)}

\* end_turn after the adversary's turn
advance_turn(w) ==
  LET w1 == [w EXCEPT !.gs.turn = @ + 1,
                      !.gs.action_points = BASE_AP + w.gs.next_turn_extra_ap,
                      !.gs.next_turn_extra_ap = 0]
      w2 == update_cooldowns(w1)
      w3 == [w2 EXCEPT !.gs.hostage_deadline = @ - 1]
  IN  {check_game_over(w4) : w4 \in Deteriorate(w3, HostageIds)}

\* process_ai_turn: the adversary's turn, then the check for game over
process_ai_turn(w, pool, rolls) ==
  {check_game_over(w1) : w1 \in take_turn_loop(begin_ai_turn(w), pool, rolls)}

\* end_turn: the adversary plays unless the game is over, then the turn
\* advances
end_turn(w, pool, rolls) ==
  IF ~w.gs.game_over
    THEN UNION {advance_turn(w1) : w1 \in process_ai_turn(w, pool, rolls)}
    ELSE advance_turn(w)

(***************************************************************************)
(* The encounter: the caller performs actions and ends turns.  pc is       *)
(* "player" between calls and "crashed" once an exception has left a call  *)
(* (no caller in the repository catches it).                               *)
(***************************************************************************)
\* the player actions and the adversary pool that are played
Catalog == {VerbalWarning, Ultimatum}

AIPool == {ThreatenHostage}

\* the values random.random() takes for the player's roll, in
\* ten-thousandths: a critical success, a success, a failure and a
\* critical failure
Rolls == {0, 2000, 9400, 9600}

\* and for the adversary's roll: a success and a failure
AIRolls == {2000, 9400}

\* the caller's calls are explored while the game has turns left
WithinHorizon == gs.turn <= gs.max_turns

NoCall ==
  [op |-> "none", name |-> "None", cost |-> 0, result |-> Rejected("None")]

NoProbe == [category |-> "None", base_chance |-> 0, chance |-> 0]

\* the size game_history is cut back to
HISTORY_LIMIT == 100

\* the entry add_history_entry builds; a key that is left out reads "None"
HistoryEntry(turn, message, actor, action, success) ==
  [turn |-> turn, message |-> message, actor |-> actor, action |-> action,
   success |-> success]

\* the last n entries of a list: list[-n:]
LastEntries(list, n) ==
  IF Len(list) <= n THEN list ELSE SubSeq(list, Len(list) - n + 1, Len(list))

\* a faulty variant that keeps the oldest entries
add_history_entry_keeping_oldest(history, entry) ==
  LET appended == Append(history, entry)
  IN  IF Len(appended) > HISTORY_LIMIT THEN SubSeq(appended, 1, HISTORY_LIMIT)
                                       ELSE appended

\* GameState.add_history_entry: the game_history it leaves
add_history_entry(history, entry) ==
  LET appended == Append(history, entry)
  IN  IF Len(appended) > HISTORY_LIMIT THEN LastEntries(appended, HISTORY_LIMIT)
                                       ELSE appended

\* the entry GameState.__init__ adds: "Situation begins. <faction> responds."
InitialEntry(player_faction) ==
  HistoryEntry(1, player_faction, "None", "None", "None")

\* the entry process_ai_turn adds for one result of the adversary's turn
AIEntry(turn, result) ==
  HistoryEntry(turn, result.action_name, "AI", result.action_name,
               IF result.success THEN "True" ELSE "False")

AIEntries(turn, ai_actions) ==
  [i \in 1 .. Len(ai_actions) |-> AIEntry(turn, ai_actions[i])]

RECURSIVE RecordAIActions(_, _, _)
\* process_ai_turn: for action in ai_actions: self.add_history_entry(...)
RecordAIActions(history, turn, ai_actions) ==
  IF ai_actions = << >>
    THEN history
    ELSE RecordAIActions(add_history_entry(history, AIEntry(turn, Head(ai_actions))),
                         turn, Tail(ai_actions))

\* no weighted choice has been made
NoChoice == [weighted_items |-> << >>, r |-> 0, result |-> "None", called |-> FALSE]

\* cooled maps an action's name to the turn in which a resolution last put
\* it on cooldown; it is kept by the encounter of SpecCooldown
NoneCooled == << >>

Init ==
  /\ gs = GameStateInit
  /\ ai = AIOpponentInit
  /\ pc = "player"
  /\ last = NoCall
  /\ probe = NoProbe
  /\ cooled = NoneCooled
  /\ ai_last_turn_actions = << >>
  /\ behavior_type = "None"
  /\ weighted = NoChoice
  /\ game_history = <<InitialEntry(Faction.FBI)>>
  /\ entries_added = <<InitialEntry(Faction.FBI)>>
  /\ core_state = CoreStateInit

\* action_system.perform_action(game_state, action) with an action of the
\* catalog and a roll
PerformCall(catalog, rolls) ==
  /\ pc = "player"
  /\ \E action \in catalog, roll \in rolls :
       \E r \in perform_action(World(gs, ai), action, roll) :
         /\ gs' = r.w.gs
         /\ ai' = r.w.ai
         /\ pc' = IF r.w.raised THEN "crashed" ELSE "player"
         /\ last' = [op |-> "perform_action", name |-> action.name,
                     cost |-> action.action_points, result |-> r.result]

PerformFrom(catalog, rolls) ==
  PerformCall(catalog, rolls)
    /\ UNCHANGED <<probe, cooled, ai_last_turn_actions, behavior_type, weighted, game_history, entries_added, core_state>>

\* game_state.end_turn() against an adversary that draws from the pool
\* observed: whether the encounter keeps ai_last_turn_actions, which
\* end_turn assigns when the game is not over
EndTurnCall(pool, rolls, observed) ==
  /\ pc = "player"
  /\ \E w \in end_turn([World(gs, ai) EXCEPT !.observed = observed], pool, rolls) :
       /\ gs' = w.gs
       /\ ai' = w.ai
       /\ ai_last_turn_actions' =
            IF observed /\ ~gs.game_over THEN w.ai_actions
                                         ELSE ai_last_turn_actions
       /\ game_history' =
            IF observed /\ ~gs.game_over
              THEN RecordAIActions(game_history, gs.turn, w.ai_actions)
              ELSE game_history
       /\ entries_added' =
            IF observed /\ ~gs.game_over
              THEN entries_added \o AIEntries(gs.turn, w.ai_actions)
              ELSE entries_added
  /\ pc' = "player"
  /\ last' = [NoCall EXCEPT !.op = "end_turn", !.result.status = "returned"]
  /\ UNCHANGED <<probe, cooled, behavior_type, weighted, core_state>>

EndTurnWith(pool, rolls) == EndTurnCall(pool, rolls, FALSE)

PerformAction == WithinHorizon /\ PerformFrom(Catalog, Rolls)

EndTurn == WithinHorizon /\ EndTurnWith(AIPool, AIRolls)

Next ==
  \/ PerformAction
  \/ EndTurn

Spec == Init /\ [][Next]_vars


(***************************************************************************)
(* The opening turn played with every modelled action against every       *)
(* modelled adversary action.                                              *)
(* The caller attempts the actions validation accepts; refused attempts    *)
(* are explored in Spec.                                                   *)
(***************************************************************************)
\* the calls of this encounter are explored while turn <= OpeningTurns
OpeningTurns == 1

OpeningRolls == {2000, 9400}

Accepted ==
  {a \in AllActions : /\ a.action_points <= gs.action_points
                      /\ ~is_action_on_cooldown(gs, a.name)}

PerformAny ==
  gs.turn <= OpeningTurns /\ PerformFrom(Accepted, OpeningRolls)

EndTurnAny ==
  gs.turn <= OpeningTurns /\ EndTurnWith(AllAIActions, OpeningRolls)

NextOpening ==
  \/ PerformAny
  \/ EndTurnAny

SpecOpening == Init /\ [][NextOpening]_vars

(***************************************************************************)
(* get_dynamic_success_chance as a function of its inputs: the state it    *)
(* reads is drawn from a grid around its thresholds, and Probe applies it  *)
(* to a category and a base chance.                                        *)
(***************************************************************************)
MetricLevels == {0, 2000, 3000, 5000, 7000, 8000, ONE}

\* the names the function tests and the values of ActionCategory
ProbedCategories ==
  {"NEGOTIATE", "TACTICAL", "FORCE", "SPECIAL", "TECH"} \cup CategoryValues

BaseChances == {0, 500, 1000, 1500, 5000, 8500, 9000, 9500, ONE}

InitChance ==
  /\ \E trust \in MetricLevels, tension \in {3000, 7000, 8000},
        morale \in {2000, 3000, 7000, 8000},
        category \in {"None", "NEGOTIATE", "FORCE"}, success \in BOOLEAN,
        power \in {"on", "off"}, fire \in {"none", "minor"} :
       gs = [GameStateInit EXCEPT
               !.trust_level = trust,
               !.tension_level = tension,
               !.morale_level = morale,
               !.last_action_category = category,
               !.last_action_success = success,
               !.environment = [power_status |-> power, fire_status |-> fire]]
  /\ ai = AIOpponentInit
  /\ pc = "player"
  /\ last = NoCall
  /\ probe = NoProbe
  /\ cooled = NoneCooled
  /\ ai_last_turn_actions = << >>
  /\ behavior_type = "None"
  /\ weighted = NoChoice
  /\ game_history = <<InitialEntry(Faction.FBI)>>
  /\ entries_added = <<InitialEntry(Faction.FBI)>>
  /\ core_state = CoreStateInit

\* game_state.get_dynamic_success_chance(category, base_chance)
Probe ==
  /\ probe = NoProbe
  /\ \E category \in ProbedCategories, base_chance \in BaseChances :
       probe' = [category |-> category, base_chance |-> base_chance,
                 chance |-> get_dynamic_success_chance(gs, category, base_chance)]
  /\ UNCHANGED <<gs, ai, pc, last, cooled, ai_last_turn_actions, behavior_type, weighted, game_history, entries_added, core_state>>

NextChance == Probe

SpecChance == InitChance /\ [][NextChance]_vars

(***************************************************************************)
(* Four turns of an encounter in which cooldowns are set and run out.  The *)
(* adversary attempts Execute Hostage and fails, which leaves the player's  *)
(* metrics alone.                                                          *)
(***************************************************************************)
\* the calls of this encounter are explored while turn <= CooldownHorizon
CooldownHorizon == 4

\* a critical success, a plain success and a critical failure
CooldownRolls == {0, 2000, 9600}

CooldownPool == {ExecuteHostage}

CooldownAIRolls == {9400}

\* the resolution puts the action on cooldown: GameAction.perform
SetsCooldown(call) ==
  /\ call.op = "perform_action"
  /\ call.result.status # "rejected"
  /\ \/ call.cost >= 3
     \/ call.result.critical_success
     \/ call.result.critical_failure

PerformCooling ==
  /\ gs.turn <= CooldownHorizon
  /\ PerformCall(Catalog, CooldownRolls)
  /\ cooled' = IF SetsCooldown(last') THEN Store(cooled, last'.name, gs.turn)
                                      ELSE cooled
  /\ UNCHANGED <<probe, ai_last_turn_actions, behavior_type, weighted, game_history, entries_added, core_state>>

EndTurnCooling ==
  gs.turn < CooldownHorizon /\ EndTurnWith(CooldownPool, CooldownAIRolls)

NextCooldown ==
  \/ PerformCooling
  \/ EndTurnCooling

SpecCooldown == Init /\ [][NextCooldown]_vars

(***************************************************************************)
(* The adversary's turns observed: end_turn with every modelled adversary  *)
(* action, keeping the list of results of take_turn.                       *)
(***************************************************************************)
\* the calls of this encounter are explored while turn <= AdversaryTurns
AdversaryTurns == 1

\* a success of the player's action
AdversaryPreludeRolls == {2000}

PerformBeforeAdversary ==
  gs.turn <= AdversaryTurns /\ PerformFrom(Catalog, AdversaryPreludeRolls)

EndTurnObserved ==
  gs.turn <= AdversaryTurns /\ EndTurnCall(AllAIActions, OpeningRolls, TRUE)

NextAdversary ==
  \/ PerformBeforeAdversary
  \/ EndTurnObserved

SpecAdversary == Init /\ [][NextAdversary]_vars

(***************************************************************************)
(* adapt_behavior as a function of what it reads: the opponent's histogram *)
(* and adaptation level, its behavior_type (drawn at random when the       *)
(* opponent is created) and the state's morale and tension.                *)
(***************************************************************************)
\* counts of one category; adaptation_level is 0.1 times their sum
HistoryCounts == {0, 2, 5, 7}

AdaptMorale == {2000, 3000, 7000}

AdaptTension == {3000, 8000, 8100}

InitAdapt ==
  /\ \E force \in HistoryCounts, negotiation \in HistoryCounts,
        tech \in HistoryCounts, dialogue \in HistoryCounts,
        morale \in AdaptMorale, tension \in AdaptTension :
       /\ gs = [GameStateInit EXCEPT !.hostage_taker_morale = morale,
                                     !.tension_level = tension]
       /\ ai = [AIOpponentInit EXCEPT
                  !.exists = TRUE,
                  !.player_action_history =
                     [@ EXCEPT ![ActionCategory.FORCE] = force,
                               ![ActionCategory.NEGOTIATION] = negotiation,
                               ![ActionCategory.TECH] = tech,
                               ![ActionCategory.DIALOGUE] = dialogue],
                  !.adaptation_level =
                     Min(ONE, 1000 * (force + negotiation + tech + dialogue))]
  /\ behavior_type \in BehaviorValues
  /\ pc = "player"
  /\ last = NoCall
  /\ probe = NoProbe
  /\ cooled = NoneCooled
  /\ ai_last_turn_actions = << >>
  /\ weighted = NoChoice
  /\ game_history = <<InitialEntry(Faction.FBI)>>
  /\ entries_added = <<InitialEntry(Faction.FBI)>>
  /\ core_state = CoreStateInit

\* self.adapt_behavior(game_state) at the head of take_turn
AdaptBehavior ==
  /\ last.op = "none"
  /\ behavior_type' = adapt_behavior(ai, gs, behavior_type)
  /\ last' = [NoCall EXCEPT !.op = "adapt_behavior", !.result.status = "returned"]
  /\ UNCHANGED <<gs, ai, pc, probe, cooled, ai_last_turn_actions, weighted, game_history, entries_added, core_state>>

NextAdapt == AdaptBehavior

SpecAdapt == InitAdapt /\ [][NextAdapt]_vars

(***************************************************************************)
(* _weighted_choice as a function of the weighted list and of the draw.    *)
(* Weights and draws are in tenths; the draws lie on a grid of DrawStep.   *)
(***************************************************************************)
MaxItems == 3

DrawStep == 5

\* 0, and the products of the factors _select_action multiplies by
Weights == {0, 5, 10, 30}

\* the item at each place of the list
ItemAt == << "Threaten Hostage", "Make Demand", "Execute Hostage" >>

WeightedLists ==
  UNION {[1 .. n -> Weights] : n \in 0 .. MaxItems}

WeightedItems(ws) ==
  [i \in 1 .. Len(ws) |-> [item |-> ItemAt[i], weight |-> ws[i]]]

\* random.uniform(0, total_weight): both ends can be drawn
Draws(weighted_items) ==
  {r \in 0 .. CumulativeWeight(weighted_items, Len(weighted_items)) :
     r % DrawStep = 0}

InitChoice ==
  /\ gs = GameStateInit
  /\ ai = AIOpponentInit
  /\ pc = "player"
  /\ last = NoCall
  /\ probe = NoProbe
  /\ cooled = NoneCooled
  /\ ai_last_turn_actions = << >>
  /\ behavior_type = "None"
  /\ game_history = <<InitialEntry(Faction.FBI)>>
  /\ entries_added = <<InitialEntry(Faction.FBI)>>
  /\ core_state = CoreStateInit
  /\ \E ws \in WeightedLists :
       \E r \in Draws(WeightedItems(ws)) :
         weighted = [NoChoice EXCEPT !.weighted_items = WeightedItems(ws), !.r = r]

\* self._weighted_choice(weighted_actions)
WeightedChoice ==
  /\ ~weighted.called
  /\ weighted' = [weighted EXCEPT
                    !.result = weighted_choice(weighted.weighted_items, weighted.r),
                    !.called = TRUE]
  /\ UNCHANGED <<gs, ai, pc, last, probe, cooled, ai_last_turn_actions, behavior_type, game_history, entries_added, core_state>>

NextChoice == WeightedChoice

SpecChoice == InitChoice /\ [][NextChoice]_vars

(***************************************************************************)
(* add_history_entry called over and over on a new game: the n-th call     *)
(* passes a message that names n, so that the entries can be told apart.   *)
(***************************************************************************)
HistoryCalls == 120

\* the factions a game is created for
PlayerFactions == {Faction[k] : k \in DOMAIN Faction}

InitHistory ==
  /\ ai = AIOpponentInit
  /\ pc = "player"
  /\ last = NoCall
  /\ probe = NoProbe
  /\ cooled = NoneCooled
  /\ ai_last_turn_actions = << >>
  /\ behavior_type = "None"
  /\ weighted = NoChoice
  /\ core_state = CoreStateInit
  /\ \E player_faction \in PlayerFactions :
       /\ gs = [GameStateInit EXCEPT !.player_faction = player_faction]
       /\ game_history = <<InitialEntry(player_faction)>>
       /\ entries_added = <<InitialEntry(player_faction)>>

\* self.add_history_entry(message, actor, action, success)
AddHistoryEntry ==
  /\ Len(entries_added) <= HistoryCalls
  /\ LET entry == HistoryEntry(gs.turn, ToString(Len(entries_added)), "System",
                               "None", "None")
     IN  /\ game_history' = add_history_entry(game_history, entry)
         /\ entries_added' = Append(entries_added, entry)
  /\ UNCHANGED <<gs, ai, pc, last, probe, cooled, ai_last_turn_actions, behavior_type, weighted, core_state>>

NextHistory == AddHistoryEntry

SpecHistory == InitHistory /\ [][NextHistory]_vars

(***************************************************************************)
(* _apply_consequences as a function of the roster and of the outcome      *)
(* class: the whole list of an action, and the body of its loop for one    *)
(* consequence whose probability roll has passed.                          *)
(***************************************************************************)
RosterStatuses == {"captured", "released", "killed"}

\* the outcome classes perform passes on: success, critical success,
\* failure and critical failure
OutcomeClasses ==
  {[success |-> s, critical_success |-> cs, critical_failure |-> cf,
    partial_success |-> FALSE, target |-> 0] :
     s \in BOOLEAN, cs \in BOOLEAN, cf \in BOOLEAN} \
  {o \in [success : BOOLEAN, critical_success : BOOLEAN,
          critical_failure : BOOLEAN, partial_success : {FALSE}, target : {0}] :
     (o.critical_success /\ ~o.success) \/ (o.critical_failure /\ o.success)}

InitConsequence ==
  /\ \E status \in [HostageIds -> RosterStatuses] :
       gs = [GameStateInit EXCEPT
               !.hostages_status =
                  [i \in HostageIds |-> [@[i] EXCEPT !.status = status[i]]],
               !.hostages_released =
                  Cardinality({i \in HostageIds : status[i] = "released"}),
               !.hostages_killed =
                  Cardinality({i \in HostageIds : status[i] = "killed"})]
  /\ ai = AIOpponentInit
  /\ pc = "player"
  /\ last = NoCall
  /\ probe = NoProbe
  /\ cooled = NoneCooled
  /\ ai_last_turn_actions = << >>
  /\ behavior_type = "None"
  /\ weighted = NoChoice
  /\ game_history = <<InitialEntry(Faction.FBI)>>
  /\ entries_added = <<InitialEntry(Faction.FBI)>>
  /\ core_state = CoreStateInit

\* the body of the loop of _apply_consequences for the i-th consequence of
\* an action, past its probability roll
FireConsequence ==
  /\ last.op = "none"
  /\ \E action \in AllActions, o \in OutcomeClasses :
       \E i \in 1 .. Len(action.consequences) :
         \E w \in ApplyOneConsequence(World(gs, ai), action.consequences[i],
                                      o.success, o.critical_success,
                                      o.critical_failure) :
           /\ gs' = w.gs
           /\ ai' = w.ai
           /\ pc' = IF w.raised THEN "crashed" ELSE "player"
           /\ last' = [op |-> "consequence", name |-> action.name, cost |-> i,
                       result |-> Resolved(o, "returned")]
  /\ UNCHANGED <<probe, cooled, ai_last_turn_actions, behavior_type, weighted, game_history, entries_added, core_state>>

\* self._apply_consequences(game_state, success, critical_success,
\* critical_failure)
ApplyConsequences ==
  /\ last.op = "none"
  /\ \E action \in AllActions, o \in OutcomeClasses :
       \E w \in apply_consequences(World(gs, ai), action, o.success,
                                   o.critical_success, o.critical_failure) :
         /\ gs' = w.gs
         /\ ai' = w.ai
         /\ pc' = IF w.raised THEN "crashed" ELSE "player"
         /\ last' = [op |-> "apply_consequences", name |-> action.name, cost |-> 0,
                     result |-> Resolved(o, "returned")]
  /\ UNCHANGED <<probe, cooled, ai_last_turn_actions, behavior_type, weighted, game_history, entries_added, core_state>>

NextConsequence ==
  \/ FireConsequence
  \/ ApplyConsequences

SpecConsequence == InitConsequence /\ [][NextConsequence]_vars

(***************************************************************************)
(* _apply_effect as a function of the effect, of the multiplier and of the *)
(* metrics it changes.                                                     *)
(***************************************************************************)
\* members of ActionEffect: the ones _apply_effect has a branch for, and
\* two it has none for
AppliedEffects ==
  {"TRUST_INCREASE", "TRUST_DECREASE", "TENSION_INCREASE", "TENSION_DECREASE",
   "MORALE_INCREASE", "MORALE_DECREASE", "HOSTAGE_RELEASE", "RESOURCE_GAIN",
   "TACTICAL_ADVANTAGE", "EXTRA_ACTION_POINTS", "THREAT_ESCALATION",
   "STRESS_INCREASE"}

\* the effect multipliers perform_action computes, in hundredths
EffectMultipliers == {25, 50, 75, 100, 150, 225}

EffectMetricLevels == {0, 500, 5000, 9500, ONE}

InitEffect ==
  /\ \E trust \in EffectMetricLevels, tension \in EffectMetricLevels :
       gs = [GameStateInit EXCEPT !.trust_level = trust,
                                  !.tension_level = tension]
  /\ ai = AIOpponentInit
  /\ pc = "player"
  /\ last = NoCall
  /\ probe = NoProbe
  /\ cooled = NoneCooled
  /\ ai_last_turn_actions = << >>
  /\ behavior_type = "None"
  /\ weighted = NoChoice
  /\ game_history = <<InitialEntry(Faction.FBI)>>
  /\ entries_added = <<InitialEntry(Faction.FBI)>>
  /\ core_state = CoreStateInit

\* self._apply_effect(effect, game_state, multiplier)
ApplyEffect ==
  /\ last.op = "none"
  /\ \E effect \in AppliedEffects, mult \in EffectMultipliers :
       \E w \in apply_effect(World(gs, ai), effect, mult) :
         /\ gs' = w.gs
         /\ ai' = w.ai
         /\ pc' = IF w.raised THEN "crashed" ELSE "player"
         /\ last' = [NoCall EXCEPT !.op = "apply_effect", !.name = effect,
                                   !.cost = mult, !.result.status = "returned"]
  /\ UNCHANGED <<probe, cooled, ai_last_turn_actions, behavior_type, weighted, game_history, entries_added, core_state>>

NextEffect == ApplyEffect

SpecEffect == InitEffect /\ [][NextEffect]_vars

(***************************************************************************)
(* The late turns of a long encounter, in which the stress of the hostages *)
(* reaches its cap: the state is the one the encounter has at the start of *)
(* turn t when the player has only ended turns.  A captured hostage's      *)
(* stress is then 50 + 5 (t - 1); a hostage released earlier kept the      *)
(* stress it had; health was lost to the adversary's shows of force and,   *)
(* above a stress of 90, to the deterioration of end_turn.                 *)
(***************************************************************************)
\* max_turns as GameState sets it
MAX_TURNS == 20

LateTurns == {8, 9, 10, 11}

\* the calls of this encounter are explored while turn <= LateHorizon
LateHorizon == 12

\* the stress of a hostage that is captured at the start of the turn
StressAt(turn) == Min(100, 50 + 5 * (turn - 1))

\* the health a captured hostage can have at the start of the turn
HealthAt(turn) ==
  {100, 60, 20} \cup (IF turn >= 10 THEN {15} ELSE {})
                \cup (IF turn >= 11 THEN {10} ELSE {})

\* the hostages of the roster at the start of the turn
HostagesAt(turn) ==
  {[status |-> "captured", health |-> health, stress |-> StressAt(turn)] :
     health \in HealthAt(turn)}
  \cup {[status |-> "released", health |-> 100, stress |-> stress] :
          stress \in {50, StressAt(turn - 1)}}

InitLate ==
  /\ \E turn \in LateTurns :
       \E roster \in [HostageIds -> HostagesAt(turn)] :
         gs = [GameStateInit EXCEPT
                 !.turn = turn,
                 !.max_turns = MAX_TURNS,
                 !.hostage_deadline = @ - (turn - 1),
                 !.hostages_status = roster,
                 !.hostages_released =
                    Cardinality({i \in HostageIds : roster[i].status = "released"})]
  /\ ai = [AIOpponentInit EXCEPT !.exists = TRUE]
  /\ pc = "player"
  /\ last = NoCall
  /\ probe = NoProbe
  /\ cooled = NoneCooled
  /\ ai_last_turn_actions = << >>
  /\ behavior_type = "None"
  /\ weighted = NoChoice
  /\ game_history = <<InitialEntry(Faction.FBI)>>
  /\ entries_added = <<InitialEntry(Faction.FBI)>>
  /\ core_state = CoreStateInit

EndTurnLate == gs.turn <= LateHorizon /\ EndTurnWith(AIPool, AIRolls)

NextLate == EndTurnLate

SpecLate == InitLate /\ [][NextLate]_vars

(***************************************************************************)
(* The outcome classes of GameAction.perform as a function of the          *)
(* effective chance and of the roll, both in ten-thousandths.              *)
(***************************************************************************)
\* effective chances between the clamps of get_dynamic_success_chance
OutcomeTargets == {MIN_CHANCE, 1040, 1060, 2000, 5000, 6000, 9000, MAX_CHANCE}

\* values of random.random()
OutcomeRolls ==
  {0, 20, 49, 50, 52, 60, 100, 250, 999, 1000, 1500, 4000, 4999, 5000, 5500,
   8999, 9000, 9499, 9500, 9501, 9999}

\* roll < self.success_chance and the three classes derived from it
ClassifyRoll ==
  /\ last.op = "none"
  /\ \E target \in OutcomeTargets, roll \in OutcomeRolls :
       /\ last' = [op |-> "perform", name |-> "None", cost |-> roll,
                   result |-> Resolved(Outcome(target, roll), "returned")]
       /\ probe' = [NoProbe EXCEPT !.chance = target]
  /\ UNCHANGED <<gs, ai, pc, cooled, ai_last_turn_actions, behavior_type, weighted, game_history, entries_added, core_state>>

NextOutcome == ClassifyRoll

SpecOutcome == Init /\ [][NextOutcome]_vars

(***************************************************************************)
(* update_environment as a function of the condition, of the new value and *)
(* of the environment, the resources and the roster it works on.           *)
(***************************************************************************)
\* the conditions update_environment is called with; gas_leak stands for a
\* key the modelled environment does not hold
EnvironmentConditions == {"power_status", "fire_status", "gas_leak"}

\* the values the comments of GameState.__init__ list for the two conditions
EnvironmentValues == {"on", "partial", "off", "none", "minor", "major"}

InitEnvironment ==
  /\ \E power \in {"on", "partial", "off"}, fire \in {"none", "minor", "major"},
        cameras \in {3, 6}, equipment \in {1, 8}, concealment \in {2, 7},
        status \in [HostageIds -> {"captured", "released"}],
        stress \in {50, 90} :
       gs = [GameStateInit EXCEPT
               !.environment = [power_status |-> power, fire_status |-> fire],
               !.player_resources.surveillance_cameras = cameras,
               !.player_resources.communications_equipment = equipment,
               !.ai_resources.concealment = concealment,
               !.hostages_status =
                  [i \in HostageIds |->
                     [@[i] EXCEPT !.status = status[i], !.stress = stress]],
               !.hostages_released =
                  Cardinality({i \in HostageIds : status[i] = "released"})]
  /\ ai = AIOpponentInit
  /\ pc = "player"
  /\ last = NoCall
  /\ probe = NoProbe
  /\ cooled = NoneCooled
  /\ ai_last_turn_actions = << >>
  /\ behavior_type = "None"
  /\ weighted = NoChoice
  /\ game_history = <<InitialEntry(Faction.FBI)>>
  /\ entries_added = <<InitialEntry(Faction.FBI)>>
  /\ core_state = CoreStateInit

\* game_state.update_environment(condition, value)
UpdateEnvironment ==
  /\ last.op = "none"
  /\ \E condition \in EnvironmentConditions, value \in EnvironmentValues :
       \E w \in update_environment(World(gs, ai), condition, value) :
         /\ gs' = w.gs
         /\ ai' = w.ai
         /\ pc' = IF w.raised THEN "crashed" ELSE "player"
         /\ last' = [NoCall EXCEPT !.op = "update_environment",
                                   !.name = condition,
                                   !.result.status = "returned",
                                   !.result.message = value]
  /\ UNCHANGED <<probe, cooled, ai_last_turn_actions, behavior_type, weighted, game_history, entries_added, core_state>>

NextEnvironment == UpdateEnvironment

SpecEnvironment == InitEnvironment /\ [][NextEnvironment]_vars

(***************************************************************************)
(* The simple game core played through simple_ui: execute_action while the *)
(* action points pay for the action, end_turn when they are used up.       *)
(***************************************************************************)
\* turns of the simple core that are explored
CoreTurns == 3

\* the values random.random() takes, in ten-thousandths: a success and a
\* failure of every action of the catalog
CoreRolls == {5000, 9500}

\* self.action_system.execute_action(action, self.game_state)
ExecuteAction ==
  /\ core_state.turn <= CoreTurns
  /\ \E action \in CoreActions, roll \in CoreRolls :
       IF core_state.ap < action.ap_cost
         THEN /\ core_state' = core_state
              /\ last' = [NoCall EXCEPT !.op = "execute_action",
                                        !.name = action.name,
                                        !.cost = action.ap_cost]
         ELSE /\ core_state' = execute_action(core_state, action, roll)
              /\ last' = [NoCall EXCEPT !.op = "execute_action",
                                        !.name = action.name,
                                        !.cost = action.ap_cost,
                                        !.result.status = "returned",
                                        !.result.success = roll < action.success_chance]
  /\ UNCHANGED <<gs, ai, pc, probe, cooled, ai_last_turn_actions, behavior_type, weighted, game_history, entries_added>>

\* SimpleUI.end_turn, called when an action has used up the action points
EndTurnCore ==
  /\ core_state.turn <= CoreTurns
  /\ last.op = "execute_action"
  /\ core_state.ap <= 0
  /\ core_state' = [core_state EXCEPT !.turn = @ + 1, !.ap = 3]
  /\ last' = [NoCall EXCEPT !.op = "core_end_turn"]
  /\ UNCHANGED <<gs, ai, pc, probe, cooled, ai_last_turn_actions, behavior_type, weighted, game_history, entries_added>>

NextCore ==
  \/ ExecuteAction
  \/ EndTurnCore

SpecCore == Init /\ [][NextCore]_vars

(***************************************************************************)
(* Properties.  last records the call that produced the current state:     *)
(* its operation, the action attempted, that action's cost and the result  *)
(* ("rejected": refused by validation, "returned": the call returned,      *)
(* "raised": an exception left the call).                                  *)
(***************************************************************************)
Performed == last.op = "perform_action"

\* C1: a validated attempt reduces action_points by exactly the action's
\* cost whatever the outcome of the roll, and action_points is never
\* negative
C1_ValidatedAttemptChargesCost ==
  [][(last'.op = "perform_action" /\ last'.result.status # "rejected")
       => /\ gs'.action_points = gs.action_points - last'.cost
          /\ gs'.action_points >= 0]_vars


\* C2: an attempt whose cost exceeds action_points, or whose action is on
\* cooldown, is rejected: the result is a failure that carries the reason,
\* and nothing of the state changes
C2_RejectedAttemptChangesNothing ==
  [][last'.op = "perform_action"
       => LET refused == \/ gs.action_points < last'.cost
                         \/ /\ last'.name \in DOMAIN gs.action_cooldowns
                            /\ gs.action_cooldowns[last'.name] > 0
          IN  /\ refused <=> last'.result.status = "rejected"
              /\ refused =>
                   /\ ~last'.result.success
                   /\ last'.result.message =
                        (IF gs.action_points < last'.cost
                           THEN "Not enough action points"
                           ELSE "Action is on cooldown")
                   /\ gs' = gs
                   /\ ai' = ai]_vars

\* an action with enough points is refused because it is on cooldown
C2_Witness ==
  /\ Performed
  /\ last.result.status = "rejected"
  /\ last.result.message = "Action is on cooldown"
  /\ gs.action_points >= last.cost


NonNegative(f) == \A k \in DOMAIN f : f[k] >= 0

\* C3: trust, tension and morale stay within [0, 1], and every entry of
\* player_resources, ai_resources, player_personnel and ai_personnel stays
\* at or above 0
C3_MetricsAndStocksInRange ==
  /\ gs.trust_level >= 0 /\ gs.trust_level <= ONE
  /\ gs.tension_level >= 0 /\ gs.tension_level <= ONE
  /\ gs.morale_level >= 0 /\ gs.morale_level <= ONE
  /\ NonNegative(gs.player_resources)
  /\ NonNegative(gs.ai_resources)
  /\ NonNegative(gs.player_personnel)
  /\ NonNegative(gs.ai_personnel)

\* three failed actions in the opening turn: the third raises tension from
\* 0.9, and the clamp holds it at 1
C3_Witness ==
  /\ Performed
  /\ gs.turn = 1
  /\ gs.action_points = 0
  /\ ~last.result.success
  /\ gs.tension_level = ONE


Probed == probe.category # "None"

\* C4: the chance get_dynamic_success_chance returns lies within
\* [0.10, 0.95] for every category, base chance and state
C4_DynamicChanceClamped ==
  Probed => /\ probe.chance >= MIN_CHANCE
            /\ probe.chance <= MAX_CHANCE

\* a chained negotiation under high trust and morale: the modifiers carry
\* a base chance of 0.90 past the upper limit, and the result is 0.95
C4_Witness ==
  /\ Probed
  /\ probe.category = "NEGOTIATE"
  /\ probe.base_chance = 9000
  /\ ChanceModifiers(gs, probe.category) = 2000
  /\ probe.chance = MAX_CHANCE


\* C5: turn starts at 1 and every end_turn adds 1 to it, so turn - 1 counts
\* the completed end_turn cycles; once max_turns of them have completed,
\* game_over is true
C5_GameEndsAfterMaxTurns ==
  [][last'.op = "end_turn"
       => /\ gs'.turn = gs.turn + 1
          /\ gs'.max_turns = gs.max_turns
          /\ (gs'.turn - 1 >= gs'.max_turns => gs'.game_over)]_vars

\* the last end_turn of an encounter nothing else has ended
C5_Witness ==
  /\ last.op = "end_turn"
  /\ gs.turn - 1 = gs.max_turns
  /\ gs.game_over
  /\ ~gs.victory
  /\ gs.defeat_reason = "Time ran out"


\* the current state is the one a call of perform_action or end_turn
\* returned with
Returned ==
  /\ last.op \in {"perform_action", "end_turn"}
  /\ last.result.status = "returned"

\* C6: whenever perform_action or end_turn returns with every hostage
\* released, game_over and victory are both true
C6_AllReleasedIsVictoryOnReturn ==
  (Returned /\ gs.hostages_released = gs.total_hostages)
    => (gs.game_over /\ gs.victory)

\* C7: whenever perform_action or end_turn returns with tension at 1.0 or
\* above and no victory condition holding, game_over is true and victory
\* is false
C7_EscalationIsDefeatOnReturn ==
  (Returned /\ gs.tension_level >= ONE /\ ~VictoryCondition(gs))
    => (gs.game_over /\ ~gs.victory)

\* C8: when a victory condition and a defeat condition hold together,
\* check_game_over sets game_over and victory and leaves defeat_reason as
\* it was
C8_VictoryTakesPrecedence ==
  (VictoryCondition(gs) /\ DefeatCondition(gs))
    => LET w == check_game_over(World(gs, ai))
       IN  /\ w.gs.game_over
           /\ w.gs.victory
           /\ w.gs.defeat_reason = gs.defeat_reason

\* end_turn has run its check with every hostage released and tension at
\* 1.0, and no defeat was recorded
C8_Witness ==
  /\ last.op = "end_turn"
  /\ AllReleased(gs)
  /\ gs.tension_level >= ONE
  /\ gs.game_over
  /\ gs.victory
  /\ gs.defeat_reason = "None"

\* C9: once game_over is true, no operation makes it false
C9_GameOverIsAbsorbing == [][gs.game_over => gs'.game_over]_vars

\* the game ended in the first turn (the adversary never played), the turn
\* was ended and an action was then performed
C9_Witness ==
  /\ Performed
  /\ last.result.status = "returned"
  /\ gs.turn = 2
  /\ ~ai.exists
  /\ gs.game_over

\* C10: once game_over is true, no later call changes victory or
\* defeat_reason, and victory never holds together with a defeat reason
C10_OutcomeIsFinal ==
  [][/\ gs.game_over => /\ gs'.victory = gs.victory
                        /\ gs'.defeat_reason = gs.defeat_reason
     /\ gs'.victory => gs'.defeat_reason = "None"]_vars


\* C11: hostage status only moves forward: a hostage that is released or
\* killed keeps that status through every later call, and a wounded hostage
\* never becomes captured again
C11_HostageStatusOneWay ==
  [][\A i \in HostageIds :
       LET before == gs.hostages_status[i].status
           after == gs'.hostages_status[i].status
       IN  /\ before \in {"released", "killed"} => after = before
           /\ before = "wounded" => after # "captured"]_vars

\* a failed action has raised tension to 0.8 or more, where the wounding
\* rule draws a hostage, while every hostage was already released: the
\* released hostages are passed over
C11_Witness ==
  /\ Performed
  /\ last.result.status = "returned"
  /\ ~last.result.success
  /\ gs.tension_level >= 8000
  /\ \A i \in HostageIds : gs.hostages_status[i].status = "released"


\* the names of the special actions (is_special = True)
SpecialNames == {a.name : a \in {b \in AllActions : b.is_special}}

\* C12: a special action is resolved at most once in a turn; stated for the
\* attempt that directly follows the resolution (no end_turn in between):
\* the second attempt with the same name is rejected and changes nothing
C12_SpecialOncePerTurn ==
  [][(/\ Performed
      /\ last.result.status = "returned"
      /\ last.name \in SpecialNames
      /\ last'.op = "perform_action"
      /\ last'.name = last.name)
       => /\ last'.result.status = "rejected"
          /\ gs' = gs]_vars


\* the action of the catalog with this name
ActionNamed(name) == CHOOSE a \in AllActions : a.name = name

\* the action is restricted to factions that do not include the player's
Foreign(a, g) ==
  a.faction_specific # {} /\ g.player_faction \notin a.faction_specific

\* C13: an action restricted to other factions is never offered by
\* get_available_actions(game_state), and an attempt to perform it is
\* rejected and changes nothing
C13_ForeignFactionActionsExcluded ==
  [][/\ \A a \in ActionSystem_get_available_actions(gs) : ~Foreign(a, gs)
     /\ (last'.op = "perform_action" /\ Foreign(ActionNamed(last'.name), gs))
          => /\ last'.result.status = "rejected"
             /\ gs' = gs]_vars


\* C14: every action get_available_actions(game_state) offers costs no more
\* than the action points held and is not on cooldown, and perform_action
\* does not reject it when it is submitted in that state
C14_OfferedActionsAreAccepted ==
  \A a \in ActionSystem_get_available_actions(gs) :
    /\ a.action_points <= gs.action_points
    /\ ~is_action_on_cooldown(gs, a.name)
    /\ \A roll \in Rolls :
         \A r \in perform_action(World(gs, ai), a, roll) :
           r.result.status # "rejected"


\* C15: a resolution of an action of cost 3 or more, or with a critical
\* outcome, sets the action's cooldown to 3; from then on perform_action
\* rejects the action in that turn and in the two turns after it, and
\* accepts it again, given the points, once three end_turn calls have
\* completed (each end_turn adds 1 to turn)
C15_CooldownLastsThreeTurns ==
  [][last'.op = "perform_action"
       => LET n == last'.name
          IN  /\ (SetsCooldown(last') /\ last'.result.status = "returned")
                   => /\ n \in DOMAIN gs'.action_cooldowns
                      /\ gs'.action_cooldowns[n] = COOLDOWN_TURNS
              /\ (n \in DOMAIN cooled /\ gs.turn < cooled[n] + 3)
                   => /\ last'.result.status = "rejected"
                      /\ gs' = gs
              /\ (/\ n \in DOMAIN cooled
                  /\ gs.turn >= cooled[n] + 3
                  /\ gs.action_points >= last'.cost)
                   => last'.result.status # "rejected"]_vars

\* Verbal Warning went on cooldown in turn 1 by a critical outcome and is
\* resolved again, with a plain success, in turn 4
C15_Witness ==
  /\ Performed
  /\ last.name = "Verbal Warning"
  /\ last.result.status = "returned"
  /\ ~SetsCooldown(last)
  /\ "Verbal Warning" \in DOMAIN cooled
  /\ cooled["Verbal Warning"] = 1
  /\ gs.turn = 4


\* C16: Open Communication (Dialogue, cost 1) performed with 3 action
\* points and trust at 0.5 under a succeeding roll raises trust_level to a
\* value between 0.55 and 0.60 and leaves 2 action points
C16_DialogueSuccessRaisesTrust ==
  [][(/\ last'.op = "perform_action"
      /\ last'.name = "Open Communication"
      /\ last'.result.status = "returned"
      /\ last'.result.success
      /\ gs.action_points = 3
      /\ gs.trust_level = 5000)
       => /\ gs'.trust_level > gs.trust_level
          /\ gs'.trust_level >= 5500
          /\ gs'.trust_level <= 6000
          /\ gs'.action_points = 2]_vars

\* C17: an attempt whose roll fails raises tension_level by 0.15 in total,
\* and by 0.30 on a critical failure, up to the limit of 1.0
C17_FailureRaisesTensionOnce ==
  [][(/\ last'.op = "perform_action"
      /\ last'.result.status = "returned"
      /\ ~last'.result.success)
       => gs'.tension_level =
            Min(ONE, gs.tension_level +
                       (IF last'.result.critical_failure THEN 3000 ELSE 1500))]_vars


\* C18: every end_turn adds exactly 1 to turn, sets action_points to 3 plus
\* the next_turn_extra_ap held before the call, and leaves next_turn_extra_ap
\* at 0, so that a carried bonus is granted once
C18_EndTurnGrantsBonusOnce ==
  [][last'.op = "end_turn"
       => /\ gs'.turn = gs.turn + 1
          /\ gs'.action_points = BASE_AP + gs.next_turn_extra_ap
          /\ gs'.next_turn_extra_ap = 0]_vars

\* Shadow Protocol succeeded in turn 1 and the turn was ended: turn 2
\* starts with 4 action points and no bonus left
C18_Witness ==
  /\ last.op = "end_turn"
  /\ gs.turn = 2
  /\ gs.action_points = BASE_AP + 1
  /\ gs.next_turn_extra_ap = 0
  /\ is_action_on_cooldown(gs, "Shadow Protocol")


\* the adversary action with this name
AIActionNamed(name) == CHOOSE a \in AllAIActions : a.name = name

\* the action points the entries of a take_turn result cost together
RECURSIVE TotalCost(_)
TotalCost(results) ==
  IF results = << >> THEN 0
  ELSE AIActionNamed(Head(results).action_name).action_points
         + TotalCost(Tail(results))

\* the entry is a successful Execute Hostage
Executed(entry) == entry.action_name = "Execute Hostage" /\ entry.success

\* an end_turn in which the adversary plays (the game is not over)
AdversaryPlays == last'.op = "end_turn" /\ ~gs.game_over

\* C19: an adversary turn ends with the adversary's action_points at 0 or
\* more, having resolved at most 3 actions that cost at most 3 points
\* together; on return the adversary has no points left, or no valid
\* affordable action, or its last action was a successful Execute Hostage
C19_AdversaryTurnIsBounded ==
  [][AdversaryPlays
       => LET results == ai_last_turn_actions'
          IN  /\ ai'.action_points >= 0
              /\ Len(results) <= 3
              /\ TotalCost(results) <= 3
              /\ ai'.action_points = BASE_AP - TotalCost(results)
              /\ \/ ai'.action_points = 0
                 \/ get_available_actions(AllAIActions, World(gs', ai')) = {}
                 \/ (results # << >> /\ Executed(results[Len(results)]))]_vars

\* a turn of three actions of one point each, the last of which would not
\* have been affordable with fewer points
C19_Witness ==
  /\ last.op = "end_turn"
  /\ Len(ai_last_turn_actions) = 3
  /\ TotalCost(ai_last_turn_actions) = 3
  /\ ai.action_points = 0

\* C20: in the results of an adversary turn a successful Execute Hostage is
\* the last entry: nothing is resolved after it
C20_ExecutionEndsAdversaryTurn ==
  [][AdversaryPlays
       => LET results == ai_last_turn_actions'
          IN  \A i \in 1 .. Len(results) :
                Executed(results[i]) => i = Len(results)]_vars

\* the adversary executed successfully and its turn ended there
C20_Witness ==
  /\ last.op = "end_turn"
  /\ ai_last_turn_actions # << >>
  /\ Executed(ai_last_turn_actions[Len(ai_last_turn_actions)])


\* C23: every player action resolved since the encounter was created, those
\* of the first turn included, adds 1 to its own category in
\* player_action_history and to no other, and 0.1 to adaptation_level up to
\* 1.0; the counts then sum to the number of actions resolved
C23_EveryPlayerActionIsCounted ==
  [][(last'.op = "perform_action" /\ last'.result.status = "returned")
       => LET category == ActionNamed(last'.name).category
          IN  /\ \A c \in CategoryValues :
                   ai'.player_action_history[c] =
                     ai.player_action_history[c] + (IF c = category THEN 1 ELSE 0)
              /\ ai'.adaptation_level = Min(ONE, ai.adaptation_level + 1000)]_vars


\* the category is recorded more often than every other one
MostFrequent(history, category) ==
  \A c \in CategoryValues \ {category} : history[c] < history[category]

\* C21: with adaptation_level at 0.5 or more, morale at 0.3 or more and
\* tension at 0.8 or less, adapt_behavior leaves DEFENSIVE when force is the
\* player's most frequent category and CALCULATING when negotiation is
C21_HistogramSetsArchetype ==
  [][(/\ last'.op = "adapt_behavior"
      /\ ai.adaptation_level >= 5000
      /\ gs.hostage_taker_morale >= 3000
      /\ gs.tension_level <= 8000)
       => /\ MostFrequent(ai.player_action_history, ActionCategory.FORCE)
               => behavior_type' = AIBehaviorType.DEFENSIVE
          /\ MostFrequent(ai.player_action_history, ActionCategory.NEGOTIATION)
               => behavior_type' = AIBehaviorType.CALCULATING]_vars

\* C22: after adapt_behavior the archetype is DESPERATE whenever morale is
\* below 0.3, and ERRATIC whenever morale is 0.3 or more and tension is
\* above 0.8, whatever the histogram, the adaptation level and the
\* archetype before
C22_ThresholdsOverrideHistogram ==
  [][last'.op = "adapt_behavior"
       => /\ gs.hostage_taker_morale < 3000
               => behavior_type' = AIBehaviorType.DESPERATE
          /\ (gs.hostage_taker_morale >= 3000 /\ gs.tension_level > 8000)
               => behavior_type' = AIBehaviorType.ERRATIC]_vars

\* morale below 0.3 with tension above 0.8, for an adapted opponent:
\* the archetype is DESPERATE
C22_Witness ==
  /\ last.op = "adapt_behavior"
  /\ gs.hostage_taker_morale < 3000
  /\ gs.tension_level > 8000
  /\ ai.adaptation_level > 5000
  /\ behavior_type = AIBehaviorType.DESPERATE


\* the place whose cumulative-weight interval [before, after) contains r
IntervalOf(weighted_items, r) ==
  {i \in 1 .. Len(weighted_items) :
     /\ CumulativeWeight(weighted_items, i - 1) <= r
     /\ r < CumulativeWeight(weighted_items, i)}

\* the draws below the total for which _weighted_choice returns item
DrawsChoosing(weighted_items, item) ==
  {r \in Draws(weighted_items) :
     /\ r < CumulativeWeight(weighted_items, Len(weighted_items))
     /\ weighted_choice(weighted_items, r) = item}

\* C24: _weighted_choice returns None exactly when the list is empty or its
\* total weight is not positive; otherwise its result is an item of the list,
\* for a draw below the total it is the item whose cumulative-weight interval
\* contains the draw, and every item is returned for a share of the draw
\* range equal to its weight
C24_WeightedChoiceIsProportional ==
  weighted.called =>
    LET items == weighted.weighted_items
        n == Len(items)
        total == CumulativeWeight(items, n)
    IN  /\ (weighted.result = "None") <=> (n = 0 \/ total <= 0)
        /\ weighted.result # "None"
             => \E i \in 1 .. n : weighted.result = items[i].item
        /\ (n > 0 /\ total > 0 /\ weighted.r < total)
             => \E i \in IntervalOf(items, weighted.r) :
                  weighted.result = items[i].item
        /\ (n > 0 /\ total > 0)
             => \A i \in 1 .. n :
                  Cardinality(DrawsChoosing(items, items[i].item)) * DrawStep
                    = items[i].weight

\* weights 3.0 and 1.0 with a draw in the second item's interval
C24_Witness ==
  /\ weighted.called
  /\ Len(weighted.weighted_items) = 2
  /\ weighted.weighted_items[1].weight = 30
  /\ weighted.weighted_items[2].weight = 10
  /\ weighted.r = 30
  /\ weighted.result = weighted.weighted_items[2].item


\* C25: game_history never holds more than 100 entries, and it is the most
\* recent entries passed to add_history_entry (all of them up to 100), in
\* the order they were added
C25_HistoryKeepsNewestHundred ==
  /\ Len(game_history) <= HISTORY_LIMIT
  /\ game_history = LastEntries(entries_added, HISTORY_LIMIT)

\* more than 100 entries were added: the oldest ones are gone
C25_Witness ==
  /\ Len(entries_added) > HISTORY_LIMIT + 10
  /\ Len(game_history) = HISTORY_LIMIT
  /\ game_history[1] # entries_added[1]
  /\ game_history[HISTORY_LIMIT] = entries_added[Len(entries_added)]


\* C26: every player action that perform_action resolves, and every action
\* of the adversary's turn, appends one entry to game_history that carries
\* the turn, the actor, the action's name and the outcome
C26_EveryActionIsLogged ==
  [][/\ (last'.op = "perform_action" /\ last'.result.status = "returned")
          => /\ Len(entries_added') = Len(entries_added) + 1
             /\ entries_added'[Len(entries_added')].turn = gs.turn
             /\ entries_added'[Len(entries_added')].action = last'.name
     /\ (last'.op = "end_turn" /\ ~gs.game_over)
          => /\ Len(entries_added') = Len(entries_added) + Len(ai_last_turn_actions')
             /\ \A i \in 1 .. Len(ai_last_turn_actions') :
                  LET entry == entries_added'[Len(entries_added) + i]
                  IN  /\ entry.turn = gs.turn
                      /\ entry.actor = "AI"
                      /\ entry.action = ai_last_turn_actions'[i].action_name
                      /\ entry.success =
                           (IF ai_last_turn_actions'[i].success THEN "True"
                                                                ELSE "False")]_vars


\* C27: a release consequence with count k that fires on a roster with n
\* captured hostages moves exactly min(k, n) distinct hostages from captured
\* to released, adds min(k, n) to hostages_released and leaves every other
\* hostage as it was
C27_ReleaseWithoutReplacement ==
  [][(last'.op = "consequence" /\ last'.result.success)
       => LET c == ActionNamed(last'.name).consequences[last'.cost]
              captured == {i \in HostageIds :
                             gs.hostages_status[i].status = "captured"}
              changed == {i \in HostageIds :
                            gs'.hostages_status[i] # gs.hostages_status[i]}
              released == Min(c.count, Cardinality(captured))
          IN  (c.type = "hostage" /\ c.value = "release" /\ c.key = "captured")
                => /\ changed \subseteq captured
                   /\ Cardinality(changed) = released
                   /\ \A i \in changed :
                        gs'.hostages_status[i] =
                          [gs.hostages_status[i] EXCEPT !.status = "released"]
                   /\ gs'.hostages_released = gs.hostages_released + released]_vars

\* Make Offer's release of one hostage has fired on two captured hostages:
\* one is released, the other is still captured
C27_Witness ==
  /\ last.op = "consequence"
  /\ last.name = "Make Offer"
  /\ ActionNamed(last.name).consequences[last.cost].value = "release"
  /\ last.result.success
  /\ gs.hostages_released = 1
  /\ \E i, j \in HostageIds :
       /\ gs.hostages_status[i].status = "released"
       /\ gs.hostages_status[j].status = "captured"

\* the consequences of a list that may apply on a critical failure
FlaggedConsequences(action) ==
  SelectSeq(action.consequences, LAMBDA c : c.on_cf)

\* C28: on a failure that is not critical _apply_consequences changes
\* nothing; on a critical failure it changes only what the consequences
\* flagged on_critical_failure change
C28_FailureSkipsConsequences ==
  [][(last'.op = "apply_consequences" /\ ~last'.result.success)
       => IF last'.result.critical_failure
            THEN \E w \in ConsequenceLoop(World(gs, ai),
                                          FlaggedConsequences(ActionNamed(last'.name)),
                                          1, FALSE, FALSE, TRUE) :
                   gs' = w.gs /\ ai' = w.ai
            ELSE gs' = gs /\ ai' = ai]_vars

\* Ultimatum has failed critically: the power is off (its flagged
\* environmental consequence) and no hostage was released
C28_Witness ==
  /\ last.op = "apply_consequences"
  /\ last.name = "Ultimatum"
  /\ last.result.critical_failure
  /\ gs.environment.power_status = "off"
  /\ \A i \in HostageIds : gs.hostages_status[i].status = "captured"


\* the state as it is when no player action has been resolved yet
WithoutPrecedingAction(g) ==
  [g EXCEPT !.last_action_category = GameStateInit.last_action_category,
            !.last_action_success = GameStateInit.last_action_success]

\* C29: when the player action resolved just before had the same category
\* and succeeded, the chance perform uses for the next action is, before
\* clamping, 0.10 above the chance it would use with no preceding action
C29_ChainingRaisesChance ==
  [][(/\ last'.op = "perform_action"
      /\ last'.result.status = "returned"
      /\ gs.last_action_category = ActionNamed(last'.name).category
      /\ gs.last_action_success)
       => ChanceModifiers(gs, ActionNamed(last'.name).category)
            = ChanceModifiers(WithoutPrecedingAction(gs),
                              ActionNamed(last'.name).category) + 1000]_vars


\* the action has a cost or a consequence whose key is absent from the
\* mapping it is applied to
NamesAbsentKey(a, g) ==
  \/ \E i \in 1 .. Len(a.resource_cost) :
       a.resource_cost[i][1] \notin DOMAIN g.player_resources
  \/ \E i \in 1 .. Len(a.personnel_cost) :
       a.personnel_cost[i][1] \notin DOMAIN g.player_personnel
  \/ \E i \in 1 .. Len(a.consequences) :
       LET c == a.consequences[i]
       IN  \/ c.type = "resource" /\ c.key \notin DOMAIN g.player_resources
           \/ c.type = "ai_resource" /\ c.key \notin DOMAIN g.ai_resources
           \/ c.type = "ai_personnel" /\ c.key \notin DOMAIN g.ai_personnel

\* C30: an action whose cost or consequence names a key that is absent from
\* its mapping does not return as an applied action: the call ends in an
\* error
C30_AbsentKeyIsSurfaced ==
  [][(last'.op = "perform_action" /\ NamesAbsentKey(ActionNamed(last'.name), gs))
       => last'.result.status # "returned"]_vars


\* C31: applying TRUST_INCREASE leaves trust above what it was (when it was
\* below 1.0); applying THREAT_ESCALATION leaves tension above what it was
\* (when it was below 1.0) and trust below what it was (when it was above 0)
C31_EffectsMoveMetrics ==
  [][last'.op = "apply_effect"
       => /\ (last'.name = "TRUST_INCREASE" /\ gs.trust_level < ONE)
               => gs'.trust_level > gs.trust_level
          /\ last'.name = "THREAT_ESCALATION"
               => /\ gs.tension_level < ONE => gs'.tension_level > gs.tension_level
                  /\ gs.trust_level > 0 => gs'.trust_level < gs.trust_level]_vars


\* C32: whenever perform_action or end_turn has returned, every entry of
\* action_cooldowns is 1, 2 or 3
C32_CooldownsWithinRange ==
  (pc = "player" /\ last.op \in {"perform_action", "end_turn"})
    => \A n \in DOMAIN gs.action_cooldowns :
         gs.action_cooldowns[n] \in 1 .. COOLDOWN_TURNS

\* end_turn has returned with one cooldown on its last turn and another
\* one running longer
C32_Witness ==
  /\ pc = "player"
  /\ last.op = "end_turn"
  /\ \E n, m \in DOMAIN gs.action_cooldowns :
       gs.action_cooldowns[n] = 1 /\ gs.action_cooldowns[m] > 1


\* the hostages of the roster with the given status
WithStatus(g, status) ==
  {i \in HostageIds : g.hostages_status[i].status = status}

\* C33: hostages_released and hostages_killed equal the numbers of released
\* and killed hostages of the roster, and no change of a hostage's status,
\* the change to wounded included, ends in an error
C33_CountersAgreeWithRoster ==
  /\ gs.hostages_released = Cardinality(WithStatus(gs, "released"))
  /\ gs.hostages_killed = Cardinality(WithStatus(gs, "killed"))
  /\ WithStatus(gs, "wounded") # {} => pc # "crashed"


\* C34: stress and health of every hostage lie in 0 .. 100 and a hostage
\* that is not killed has a health of 10 or more; every end_turn adds 5 to
\* the stress of each captured hostage, up to 100, and changes the stress of
\* no other hostage
C34_StressAndHealthBounded ==
  /\ [](\A i \in HostageIds :
          LET h == gs.hostages_status[i]
          IN  /\ h.stress \in 0 .. 100
              /\ h.health \in 0 .. 100
              /\ h.status # "killed" => h.health >= 10)
  /\ [][last'.op = "end_turn"
          => \A i \in HostageIds :
               gs'.hostages_status[i].stress =
                 IF gs.hostages_status[i].status = "captured"
                   THEN Min(100, gs.hostages_status[i].stress + 5)
                   ELSE gs.hostages_status[i].stress]_vars

\* end_turn has returned with a captured hostage at the cap of stress and
\* at the floor of health, next to a released hostage whose stress stayed
\* where it was
C34_Witness ==
  /\ last.op = "end_turn"
  /\ gs.turn = LateHorizon + 1
  /\ \E i, j \in HostageIds :
       /\ gs.hostages_status[i].status = "captured"
       /\ gs.hostages_status[i].stress = 100
       /\ gs.hostages_status[i].health = 10
       /\ gs.hostages_status[j].status = "released"
       /\ gs.hostages_status[j].stress = 50


\* C35: for an effective chance between 0.10 and 0.95 and any roll, a
\* critical success is not also a partial success, a critical failure is
\* not a success, and the failure is critical exactly when the roll is
\* above 0.95
C35_OneOutcomeClass ==
  last.op = "perform"
    => /\ ~(last.result.critical_success /\ last.result.partial_success)
       /\ ~(last.result.critical_failure /\ last.result.success)
       /\ last.result.critical_failure <=> (last.cost > ONE - 500)


C37_AdversarySpendsWholeBudget ==
  [][AdversaryPlays
       => /\ ai'.action_points = 0
          /\ Len(ai_last_turn_actions') \in 1 .. BASE_AP
          /\ TotalCost(ai_last_turn_actions') = BASE_AP]_vars

\* the adversary resolved a 2-point action and then a 1-point action, and
\* has no points left
C37_Witness ==
  /\ last.op = "end_turn"
  /\ Len(ai_last_turn_actions) = 2
  /\ AIActionNamed(ai_last_turn_actions[1].action_name).action_points = 2
  /\ AIActionNamed(ai_last_turn_actions[2].action_name).action_points = 1
  /\ ai.action_points = 0


\* C38: a real transition applies the related side effects: switching the
\* power to "off" from another value lowers surveillance_cameras by 4 and
\* communications_equipment by 2 (floored at 0), and changing fire_status
\* from "none" to another value lowers the adversary's concealment by 3 and
\* raises the stress of every captured hostage by 20 (capped at 100)
C38_TransitionsApplySideEffects ==
  [][last'.op = "update_environment"
       => /\ (/\ last'.name = "power_status"
              /\ last'.result.message = "off"
              /\ gs.environment.power_status # "off")
             => /\ gs'.player_resources.surveillance_cameras
                     = Max(0, gs.player_resources.surveillance_cameras - 4)
                /\ gs'.player_resources.communications_equipment
                     = Max(0, gs.player_resources.communications_equipment - 2)
          /\ (/\ last'.name = "fire_status"
              /\ last'.result.message # "none"
              /\ gs.environment.fire_status = "none")
             => /\ gs'.ai_resources.concealment
                     = Max(0, gs.ai_resources.concealment - 3)
                /\ \A i \in CapturedIds(gs) :
                     gs'.hostages_status[i].stress
                       = Min(100, gs.hostages_status[i].stress + 20)]_vars


\* C39: the adversary morale the peaceful-surrender check reads stays a
\* valid metric: hostage_taker_morale is within [0,1] after any sequence of
\* player actions and adversary turns
C39_AdversaryMoraleIsAMetric == gs.hostage_taker_morale \in 0 .. ONE


\* trust, tension and morale of the simple core are within [0,100] and its
\* action points are not negative
CoreMetricsWithinRange ==
  /\ core_state.trust \in 0 .. 100
  /\ core_state.tension \in 0 .. 100
  /\ core_state.morale \in 0 .. 100
  /\ core_state.ap >= 0

\* C40: in the simple game core the thresholds are enforced on every
\* action: when execute_action returns with trust >= 90 the game is over
\* and won, when it returns with trust < 90 and tension >= 90 the game is
\* over and lost; trust, tension and morale stay within [0,100] and ap is
\* never negative
C40_CoreThresholdsEnforced ==
  /\ CoreMetricsWithinRange
  /\ last.op = "execute_action"
       => /\ core_state.trust >= 90
               => (core_state.game_over /\ core_state.victory)
          /\ (core_state.trust < 90 /\ core_state.tension >= 90)
               => (core_state.game_over /\ ~core_state.victory)

====
